---- MODULE Spec2Model ----
(***************************************************************************)
(* A model of the ResNet preprocessing code: the composite-key decoder,    *)
(* the three relationship normalizers, the Unifier, the node normalizer,   *)
(* the extraction stage and the command-line driver.                       *)
(*                                                                         *)
(* Text is a sequence of one-character strings.  A table cell is a record  *)
(* [k, n, s]: k = "nan" (missing, NaN), k = "int" (number n) or k = "str"  *)
(* (text s).  A table is [cols, rows]: cols names the positions of a row,  *)
(* every row is a sequence of cells.  A headerless delimited file has      *)
(* cols = << >> and rows of "str" cells (its fields).                      *)
(***************************************************************************)
EXTENDS Integers, Sequences, FiniteSets, TLC

VARIABLES
    inOutkey,   \* decoder: the 'inOutkey' column handed to inOutkeys_to_lists
    decoded,    \* decoder: what the call produced ([st, first_ids, second_ids])
    fs,         \* the files under base_path: path -> table (the domain is the files that exist)
    pc,         \* the stage about to run, or "done" / "failed"
    err,        \* the exception that ended the run, "none" while there is none
    config,     \* file_paths.json: whether it exists, and its key -> path map
    args,       \* the command line: the --method list and --file_name
    dp,         \* DataProcessor's path attributes, as loaded from the config file
    todo,       \* main's loop: the methods still to call
    db,         \* the records the database returns for the stage's query
    conn,       \* the database connection: "none", "open" or "closed"
    at,         \* the statement an extraction stage has reached
    before,     \* the output path's content when the extraction stage started
    inv         \* concurrent invocations: each one's position in _update_config_file

decodeVars == <<inOutkey, decoded>>

runVars == <<fs, pc, err>>

cliVars == <<config, args, dp, todo>>

extractVars == <<db, conn, at, before>>

vars == <<inOutkey, decoded, fs, pc, err, config, args, dp, todo, db, conn, at, before, inv>>

----------------------------------------------------------------------------
(* Bounds *)

MaxTokenLen == 5

MaxDirRows == 2

MaxRelRows == 1

MaxNodeRows == 2

MaxRecords == 2

MaxMethods == 3

----------------------------------------------------------------------------
(* Text primitives (Python str methods) *)

\* all sequences over A of length at most n
SeqsUpTo(A, n) == UNION {[1..k -> A] : k \in 0..n}

Last(s) == s[Len(s)]

Front(s) == SubSeq(s, 1, Len(s) - 1)

\* str.isspace for one character
IsSpace(c) == c \in {" ", "\n", "\t"}

RECURSIVE LStrip(_)
LStrip(s) ==
    IF s = <<>> THEN s
    ELSE IF IsSpace(Head(s)) THEN LStrip(Tail(s)) ELSE s

RECURSIVE RStrip(_)
RStrip(s) ==
    IF s = <<>> THEN s
    ELSE IF IsSpace(Last(s)) THEN RStrip(Front(s)) ELSE s

\* a faulty variant of Strip: strips the left side only
StripLeftOnly(s) == LStrip(s)

\* str.strip()
Strip(s) == RStrip(LStrip(s))

\* str.replace(c, '') for a one-character c
RemoveChar(s, c) == SelectSeq(s, LAMBDA x : x # c)

\* position of the first c in s, 0 when there is none
FirstIndex(s, c) ==
    IF \E i \in 1..Len(s) : s[i] = c
    THEN CHOOSE i \in 1..Len(s) : s[i] = c /\ \A j \in 1..(i - 1) : s[j] # c
    ELSE 0

\* str.split(sep) for a one-character sep: always at least one part
RECURSIVE Split(_, _)
Split(s, sep) ==
    LET i == FirstIndex(s, sep)
    IN  IF i = 0 THEN <<s>>
        ELSE <<SubSeq(s, 1, i - 1)>> \o Split(SubSeq(s, i + 1, Len(s)), sep)

----------------------------------------------------------------------------
(* Numbers and their text forms *)

Digits == <<"0", "1", "2", "3", "4", "5", "6", "7", "8", "9">>

IsDigit(c) == \E d \in 1..10 : Digits[d] = c

DigitVal(c) == (CHOOSE d \in 1..10 : Digits[d] = c) - 1

IsDigits(s) == s # <<>> /\ \A i \in 1..Len(s) : IsDigit(s[i])

RECURSIVE ParseNat(_)
ParseNat(s) == IF s = <<>> THEN 0 ELSE 10 * ParseNat(Front(s)) + DigitVal(Last(s))

RECURSIVE NatToText(_)
NatToText(n) ==
    IF n < 10 THEN <<Digits[n + 1]>> ELSE NatToText(n \div 10) \o <<Digits[(n % 10) + 1]>>

\* str(n) for an int
IntToText(n) == IF n < 0 THEN <<"-">> \o NatToText(0 - n) ELSE NatToText(n)

\* the text of an integral float, as str() and to_csv print it: "3.0"
FloatToText(n) == IntToText(n) \o <<".", "0">>

\* int(s) for text: surrounding whitespace is ignored, the rest must be digits
IntOfText(s) ==
    LET t == Strip(s)
    IN  IF IsDigits(t) THEN [ok |-> TRUE, n |-> ParseNat(t)] ELSE [ok |-> FALSE, n |-> 0]

\* pd.to_numeric for one text: an integer, an integral float "3.0", else not a number
NumberOfText(s) ==
    LET t == Strip(s)
        k == Len(t)
    IN  IF IsDigits(t) THEN [ok |-> TRUE, n |-> ParseNat(t)]
        ELSE IF k > 2 /\ SubSeq(t, k - 1, k) = <<".", "0">> /\ IsDigits(SubSeq(t, 1, k - 2))
             THEN [ok |-> TRUE, n |-> ParseNat(SubSeq(t, 1, k - 2))]
             ELSE [ok |-> FALSE, n |-> 0]

\* numpy's cast of an integer to int16: the low 16 bits, two's complement
ToInt16(n) == ((n + 32768) % 65536) - 32768

LowerLetters == <<"a", "b", "c", "d", "e", "f", "g", "h", "i", "j", "k", "l", "m",
                  "n", "o", "p", "q", "r", "s", "t", "u", "v", "w", "x", "y", "z">>

UpperLetters == <<"A", "B", "C", "D", "E", "F", "G", "H", "I", "J", "K", "L", "M",
                  "N", "O", "P", "Q", "R", "S", "T", "U", "V", "W", "X", "Y", "Z">>

\* a faulty variant of UpperChar: the case of a letter is toggled (str.swapcase-like)
ToggleChar(c) ==
    IF \E i \in 1..26 : LowerLetters[i] = c
    THEN UpperLetters[CHOOSE i \in 1..26 : LowerLetters[i] = c]
    ELSE IF \E i \in 1..26 : UpperLetters[i] = c
         THEN LowerLetters[CHOOSE i \in 1..26 : UpperLetters[i] = c]
         ELSE c

UpperChar(c) ==
    IF \E i \in 1..26 : LowerLetters[i] = c
    THEN UpperLetters[CHOOSE i \in 1..26 : LowerLetters[i] = c]
    ELSE c

\* a faulty variant of Upper: only the first character is upper-cased (str.capitalize-like)
UpperFirstOnly(s) == [i \in 1..Len(s) |-> IF i = 1 THEN UpperChar(s[i]) ELSE s[i]]

\* str.upper()
Upper(s) == [i \in 1..Len(s) |-> UpperChar(s[i])]

----------------------------------------------------------------------------
(* Cells and tables (pandas) *)

NaN == [k |-> "nan", n |-> 0, s |-> <<>>]

IntCell(n) == [k |-> "int", n |-> n, s |-> <<>>]

FloatCell(n) == [k |-> "float", n |-> n, s |-> <<>>]

StrCell(s) == [k |-> "str", n |-> 0, s |-> s]

\* str(x) of a cell value
PyStr(c) ==
    CASE c.k = "nan" -> <<"n", "a", "n">>
      [] c.k = "int" -> IntToText(c.n)
      [] c.k = "float" -> FloatToText(c.n)
      [] OTHER -> c.s

Range(f) == {f[i] : i \in DOMAIN f}

\* position of column name c in cols, 0 when absent
ColIndex(cols, c) ==
    IF \E i \in 1..Len(cols) : cols[i] = c
    THEN CHOOSE i \in 1..Len(cols) : cols[i] = c
    ELSE 0

HasCol(df, c) == ColIndex(df.cols, c) # 0

\* df[c] of one row
Cell(df, row, c) == row[ColIndex(df.cols, c)]

\* the cells of column c
Column(df, c) == [i \in 1..Len(df.rows) |-> Cell(df, df.rows[i], c)]

\* dtype object (or category): the column holds text
IsObjectCol(df, c) == \E i \in 1..Len(df.rows) : Cell(df, df.rows[i], c).k = "str"

\* df[c] = df[c].apply(f), and the same for several columns
MapCol(df, c, f(_)) ==
    [df EXCEPT !.rows =
        [i \in 1..Len(df.rows) |->
            [j \in 1..Len(df.cols) |->
                IF df.cols[j] = c THEN f(df.rows[i][j]) ELSE df.rows[i][j]]]]

MapCols(df, cs, f(_)) ==
    [df EXCEPT !.rows =
        [i \in 1..Len(df.rows) |->
            [j \in 1..Len(df.cols) |->
                IF df.cols[j] \in cs THEN f(df.rows[i][j]) ELSE df.rows[i][j]]]]

\* df.drop(columns=cs)
DropCols(df, cs) ==
    LET keep == SelectSeq([j \in 1..Len(df.cols) |-> j], LAMBDA j : df.cols[j] \notin cs)
    IN  [cols |-> [k \in 1..Len(keep) |-> df.cols[keep[k]]],
         rows |-> [i \in 1..Len(df.rows) |-> [k \in 1..Len(keep) |-> df.rows[i][keep[k]]]]]

\* df[cols]: the named columns in the given order (all of them exist)
Project(df, cols) ==
    [cols |-> cols,
     rows |-> [i \in 1..Len(df.rows) |->
                 [k \in 1..Len(cols) |-> Cell(df, df.rows[i], cols[k])]]]

\* the fields pandas reads as missing (its default na_values, those the alphabets can spell)
NaTexts == {<<>>, <<"n", "a", "n">>, <<"N", "o", "n", "e">>, <<"N", "a", "N">>,
            <<"N", "A">>, <<"N", "U", "L", "L">>, <<"n", "u", "l", "l">>}

\* pd.read_csv(path, sep='|', header=None): a field that spells a missing value is NaN;
\* a column whose other fields are all integers is numeric (float64 when it has a NaN,
\* int64 otherwise); any other column keeps its fields as text.  Columns are numbered.
ReadCsv(file) ==
    LET n == Len(file.rows)
        w == IF n = 0 THEN 0 ELSE Len(file.rows[1])
        na(i, j) == file.rows[i][j].s \in NaTexts
        numeric(j) == \A i \in 1..n : na(i, j) \/ IsDigits(file.rows[i][j].s)
        anyna(j) == \E i \in 1..n : na(i, j)
        cell(i, j) ==
            IF na(i, j) THEN NaN
            ELSE IF numeric(j)
                 THEN IF anyna(j) THEN FloatCell(ParseNat(file.rows[i][j].s))
                      ELSE IntCell(ParseNat(file.rows[i][j].s))
                 ELSE StrCell(file.rows[i][j].s)
    IN  [cols |-> <<>>,
         rows |-> [i \in 1..n |-> [j \in 1..w |-> cell(i, j)]]]

\* df.columns = names
AssignColumns(df, names) == [df EXCEPT !.cols = names]

\* the written form of a cell in to_csv: NaN is the empty field
CsvField(c) == IF c.k = "nan" THEN StrCell(<<>>) ELSE StrCell(PyStr(c))

\* df.to_csv(path, sep='|', index=False, header=True): the header and the rows as text
ToCsv(df) ==
    [cols |-> df.cols,
     rows |-> [i \in 1..Len(df.rows) |->
                 [j \in 1..Len(df.cols) |-> CsvField(df.rows[i][j])]]]

\* a faulty variant of convert_object_to_category: casts to category without stripping
convert_without_strip(df) ==
    MapCols(df, {c \in Range(df.cols) : IsObjectCol(df, c)}, LAMBDA x : StrCell(PyStr(x)))

\* convert_object_to_category(df): every object column becomes str(x).strip(), as category
convert_object_to_category(df) ==
    MapCols(df, {c \in Range(df.cols) : IsObjectCol(df, c)},
            LAMBDA x : StrCell(Strip(PyStr(x))))

\* a cell cast by astype to an integer dtype: NaN and non-numeric text cannot be cast
CastInt(c) ==
    CASE c.k = "nan" -> [ok |-> FALSE, n |-> 0]
      [] c.k = "str" -> IntOfText(c.s)
      [] OTHER -> [ok |-> TRUE, n |-> c.n]

\* can df[c].astype(<integer dtype>) be carried out without raising
CanCastCol(df, c) == \A i \in 1..Len(df.rows) : CastInt(Cell(df, df.rows[i], c)).ok

\* df[c] = df[c].astype('int64')
AsInt64(df, c) == MapCol(df, c, LAMBDA x : IntCell(CastInt(x).n))

\* df[c] = df[c].astype('int16')
AsInt16(df, c) == MapCol(df, c, LAMBDA x : IntCell(ToInt16(CastInt(x).n)))

----------------------------------------------------------------------------
(* CompositeKeyDecoder: inOutkeys_to_lists *)

\* x.replace('[', '').replace(']', '')
CleanKey(x) == RemoveChar(RemoveChar(x, "["), "]")

\* the loop body for a cleaned item: x = item.split(','); x[0].strip(), x[1].strip().
\* x[1] raises IndexError when the split has one part; further parts are ignored.
KeyParts(item) ==
    LET x == Split(item, ",")
    IN  IF Len(x) < 2
        THEN [ok |-> FALSE, first |-> <<>>, second |-> <<>>]
        ELSE [ok |-> TRUE, first |-> Strip(x[1]), second |-> Strip(x[2])]

\* a faulty variant of inOutkeys_to_lists: the two ids are appended to the wrong lists
inOutkeys_swapped(col) ==
    LET parts == [i \in 1..Len(col) |-> KeyParts(CleanKey(col[i]))]
    IN  IF \E i \in 1..Len(col) : ~parts[i].ok
        THEN [st |-> "IndexError", first_ids |-> <<>>, second_ids |-> <<>>]
        ELSE [st |-> "ok",
              first_ids |-> [i \in 1..Len(col) |-> parts[i].second],
              second_ids |-> [i \in 1..Len(col) |-> parts[i].first]]

\* inOutkeys_to_lists(df) on the column df['inOutkey']: the two id lists, or the
\* IndexError raised at the first item without a comma (nothing is returned then)
inOutkeys_to_lists(col) ==
    LET parts == [i \in 1..Len(col) |-> KeyParts(CleanKey(col[i]))]
    IN  IF \E i \in 1..Len(col) : ~parts[i].ok
        THEN [st |-> "IndexError", first_ids |-> <<>>, second_ids |-> <<>>]
        ELSE [st |-> "ok",
              first_ids |-> [i \in 1..Len(col) |-> parts[i].first],
              second_ids |-> [i \in 1..Len(col) |-> parts[i].second]]

KeyAlphabet == {"[", "]", ",", " ", "1", "2"}

NotCalled == [st |-> "none", first_ids |-> <<>>, second_ids |-> <<>>]

EmptyTable == [cols |-> <<>>, rows |-> <<>>]

NoFiles == [p \in {} |-> EmptyTable]

\* None, for a path attribute
None == <<>>

NoConfig == [exists |-> FALSE, paths |-> [k \in {} |-> None]]

NoArgs == [method |-> <<>>, file_name |-> None]

\* DataProcessor.__init__: every path attribute is None
NewDataProcessor ==
    [directional_ds |-> None, bi_directional_ds |-> None, attributes_ds |-> None,
     nodes_ds |-> None, procd_biDirect_rels |-> None, procd_direct_rels |-> None,
     procd_attrib_rels |-> None]

NotStarted == [exists |-> FALSE, content |-> EmptyTable]

\* no invocation is inside _update_config_file
NoInvocations == <<>>

\* the command-line driver is not in use
CliIdle == config = NoConfig /\ args = NoArgs /\ dp = NewDataProcessor /\ todo = <<>>

\* no extraction stage is in use
ExtractIdle == db = <<>> /\ conn = "none" /\ at = "idle" /\ before = NotStarted

DecodeInit ==
    /\ inOutkey \in {<<t>> : t \in SeqsUpTo(KeyAlphabet, MaxTokenLen)}
    /\ decoded = NotCalled
    /\ inv = NoInvocations
    /\ fs = NoFiles
    /\ pc = "idle"
    /\ err = "none"
    /\ CliIdle
    /\ ExtractIdle

\* one call of inOutkeys_to_lists on the column
Decode ==
    /\ decoded.st = "none"
    /\ decoded' = inOutkeys_to_lists(inOutkey)
    /\ UNCHANGED <<inOutkey, inv, runVars, cliVars, extractVars>>

DecodeNext == Decode

SpecDecode == DecodeInit /\ [][DecodeNext]_vars

----------------------------------------------------------------------------
(* Results of a stage's computation: the table, or the exception raised *)

Ok(df) == [st |-> "ok", df |-> df]

Raise(e) == [st |-> e, df |-> [cols |-> <<>>, rows |-> <<>>]]

\* text constants of the code
tNone == <<"N", "o", "n", "e">>

tnan == <<"n", "a", "n">>

tSentinel == <<"_">>

\* df[c].fillna(v)
FillNa(df, c, v) == MapCol(df, c, LAMBDA x : IF x.k = "nan" THEN v ELSE x)

\* df.fillna(v)
FillNaAll(df, v) == MapCols(df, Range(df.cols), LAMBDA x : IF x.k = "nan" THEN v ELSE x)

\* a faulty variant of ReplaceAll: every occurrence of a inside a text is replaced, as
\* replace(a, b, regex=True) would
ReplaceSubstrings(df, a, b) ==
    LET sub(s) ==
            LET F[i \in 1..(Len(s) + 1)] ==
                    IF i > Len(s) THEN <<>>
                    ELSE IF i + Len(a) - 1 <= Len(s) /\ SubSeq(s, i, i + Len(a) - 1) = a
                         THEN b \o F[i + Len(a)]
                         ELSE <<s[i]>> \o F[i + 1]
            IN  F[1]
    IN  MapCols(df, Range(df.cols), LAMBDA x : IF x.k = "str" THEN StrCell(sub(x.s)) ELSE x)

\* df.replace(a, b) for texts a, b: cells equal to a become b
ReplaceAll(df, a, b) ==
    MapCols(df, Range(df.cols), LAMBDA x : IF x = StrCell(a) THEN StrCell(b) ELSE x)

----------------------------------------------------------------------------
(* RelationshipNormalizer: the three variants of DataProcessor *)

directional_columns ==
    <<"msrc_id", ":START_ID", "type:TYPE", "effect", "mechanism", "ref_count:int", ":END_ID",
      "id2", "biomarkertype", "celllinename", "celltype", "changetype", "organ", "organism",
      "quantitativetype", "tissue", "nct_id", "phase">>

bidirectional_columns ==
    <<"msrc_id", ":START_ID", "inOutkey", "type:TYPE", "relationship", "effect", "mechanism",
      "ref_count:int", ":END_ID", "id2", "biomarkertype", "celllinename", "celltype",
      "changetype", "organ", "organism", "quantitativetype", "tissue">>

attribute_columns == <<"msrc_id", ":START_ID", "id2", "type:TYPE", ":END_ID">>

\* pd.read_csv followed by df.columns = names: an empty file and a width that differs
\* from the fixed layout raise
ReadRaw(file, names) ==
    IF Len(file.rows) = 0 THEN Raise("EmptyDataError")
    ELSE IF Len(file.rows[1]) # Len(names) THEN Raise("ValueError")
    ELSE Ok(AssignColumns(ReadCsv(file), names))

\* process_directional_rels, from the raw file's content to the pickled table
NormalizeDirectional(file) ==
    LET r == ReadRaw(file, directional_columns)
    IN  IF r.st # "ok" THEN r
        ELSE LET df1 == DropCols(r.df, {"id2"})
                 df2 == FillNa(df1, "phase", StrCell(tNone))
                 df3 == convert_object_to_category(df2)
             IN  IF ~CanCastCol(df3, "ref_count:int") THEN Raise("ValueError")
                 ELSE Ok(AsInt16(df3, "ref_count:int"))

\* a faulty variant of SetCol: the list is assigned to the rows in reverse order
SetColReversed(df, c, values) ==
    [df EXCEPT !.rows =
        [i \in 1..Len(df.rows) |->
            [j \in 1..Len(df.cols) |->
                IF df.cols[j] = c THEN StrCell(values[Len(df.rows) + 1 - i])
                ELSE df.rows[i][j]]]]

\* df[c] = values (a list of texts, one per row)
SetCol(df, c, values) ==
    [df EXCEPT !.rows =
        [i \in 1..Len(df.rows) |->
            [j \in 1..Len(df.cols) |->
                IF df.cols[j] = c THEN StrCell(values[i]) ELSE df.rows[i][j]]]]

\* the 'inOutkey' column as texts; a missing key is a float NaN, whose .replace raises
KeyColumn(df) == [i \in 1..Len(df.rows) |-> PyStr(Cell(df, df.rows[i], "inOutkey"))]

KeyColumnIsText(df) == \A i \in 1..Len(df.rows) : Cell(df, df.rows[i], "inOutkey").k = "str"

\* process_bi_directional_rels, from the raw file's content to the pickled table
NormalizeBidirectional(file) ==
    LET r == ReadRaw(file, bidirectional_columns)
    IN  IF r.st # "ok" THEN r
        ELSE IF ~KeyColumnIsText(r.df) THEN Raise("AttributeError")
        ELSE LET ids == inOutkeys_to_lists(KeyColumn(r.df))
             IN  IF ids.st # "ok" THEN Raise(ids.st)
                 ELSE LET df1 == DropCols(r.df, {"inOutkey", "id2", "relationship"})
                          df2 == SetCol(SetCol(df1, ":START_ID", ids.first_ids),
                                        ":END_ID", ids.second_ids)
                      IN  IF ~(CanCastCol(df2, ":START_ID") /\ CanCastCol(df2, ":END_ID")
                               /\ CanCastCol(df2, "ref_count:int"))
                          THEN Raise("ValueError")
                          ELSE Ok(convert_object_to_category(
                                    AsInt16(AsInt64(AsInt64(df2, ":START_ID"), ":END_ID"),
                                            "ref_count:int")))

\* df.dropna(how='any') with reset_index(drop=True)
DropNa(df) ==
    [df EXCEPT !.rows = SelectSeq(df.rows, LAMBDA row : \A j \in 1..Len(row) : row[j].k # "nan")]

\* pd.to_numeric(df[c], errors='coerce'): text that is no number becomes NaN
ToNumericCoerce(df, c) ==
    MapCol(df, c, LAMBDA x :
        IF x.k = "str"
        THEN IF NumberOfText(x.s).ok THEN IntCell(NumberOfText(x.s).n) ELSE NaN
        ELSE x)

\* process_attribute_rels (preprocess_resnet.py), from the raw content to the pickled table
NormalizeAttribute(file) ==
    LET r == ReadRaw(file, attribute_columns)
    IN  IF r.st # "ok" THEN r
        ELSE LET df1 == DropNa(DropCols(r.df, {"id2"}))
                 df2 == MapCols(df1, Range(df1.cols), LAMBDA x : StrCell(Strip(PyStr(x))))
                 df3 == ToNumericCoerce(df2, ":START_ID")
             IN  IF ~CanCastCol(df3, ":START_ID") THEN Raise("IntCastingNaNError")
                 ELSE LET df4 == ToNumericCoerce(AsInt64(df3, ":START_ID"), ":END_ID")
                      IN  IF ~CanCastCol(df4, ":END_ID") THEN Raise("IntCastingNaNError")
                          ELSE Ok(AsInt64(df4, ":END_ID"))

----------------------------------------------------------------------------
(* Unifier: concat_relationship_files *)

RECURSIVE UnionCols(_, _)
\* the columns of the frames in order of first appearance
UnionCols(cols, frames) ==
    IF frames = <<>> THEN cols
    ELSE UnionCols(cols \o SelectSeq(Head(frames).cols,
                                     LAMBDA c : ColIndex(cols, c) = 0),
                   Tail(frames))

\* a faulty variant of Reindex: the frame's cells are laid out by position, not by name
ReindexByPosition(df, cols) ==
    [i \in 1..Len(df.rows) |->
        [k \in 1..Len(cols) |-> IF k <= Len(df.cols) THEN df.rows[i][k] ELSE NaN]]

\* a frame's rows laid out on cols, NaN where the frame lacks the column
Reindex(df, cols) ==
    [i \in 1..Len(df.rows) |->
        [k \in 1..Len(cols) |->
            IF HasCol(df, cols[k]) THEN Cell(df, df.rows[i], cols[k]) ELSE NaN]]

RECURSIVE StackRows(_, _)
StackRows(frames, cols) ==
    IF frames = <<>> THEN <<>>
    ELSE Reindex(Head(frames), cols) \o StackRows(Tail(frames), cols)

\* a numeric column that holds a NaN or a float is float64: its integers become floats
PromoteNumeric(df) ==
    LET floatcol(c) ==
            /\ ~IsObjectCol(df, c)
            /\ \E i \in 1..Len(df.rows) : Cell(df, df.rows[i], c).k \in {"nan", "float"}
    IN  MapCols(df, {c \in Range(df.cols) : floatcol(c)},
                LAMBDA x : IF x.k = "int" THEN FloatCell(x.n) ELSE x)

\* a faulty variant of Concat: the first frame is stacked twice
ConcatTwice(frames) ==
    LET cols == UnionCols(<<>>, frames)
    IN  PromoteNumeric([cols |-> cols,
                        rows |-> StackRows(<<Head(frames)>> \o frames, cols)])

\* pd.concat(frames, ignore_index=True)
Concat(frames) ==
    LET cols == UnionCols(<<>>, frames)
    IN  PromoteNumeric([cols |-> cols, rows |-> StackRows(frames, cols)])

RECURSIVE KeepFirst(_, _)
KeepFirst(rows, seen) ==
    IF rows = <<>> THEN <<>>
    ELSE IF Head(rows) \in seen THEN KeepFirst(Tail(rows), seen)
         ELSE <<Head(rows)>> \o KeepFirst(Tail(rows), seen \cup {Head(rows)})

\* a faulty variant of drop_duplicates: nothing is dropped
keep_duplicates(df) == df

\* df.drop_duplicates().reset_index(drop=True): the first of equal rows is kept
drop_duplicates(df) == [df EXCEPT !.rows = KeepFirst(df.rows, {})]

\* df_concat['ref_count:int'].fillna(0, inplace=True)
FillRefCount(df) ==
    FillNa(df, "ref_count:int",
           IF IsObjectCol(df, "ref_count:int") THEN IntCell(0) ELSE FloatCell(0))

\* a faulty variant of SentinelPasses: the 'nan' text is not normalized
SentinelWithoutNanPass(df) == ReplaceAll(FillNaAll(df, StrCell(tNone)), tNone, tSentinel)

\* fillna('None'), replace('nan', 'None'), replace('None', '_')
SentinelPasses(df) ==
    ReplaceAll(ReplaceAll(FillNaAll(df, StrCell(tNone)), tnan, tNone), tNone, tSentinel)

\* df['type:TYPE'].apply(lambda x: x.upper()): a value without .upper raises
CanUpperCol(df, c) == \A i \in 1..Len(df.rows) : Cell(df, df.rows[i], c).k = "str"

\* a faulty variant of UpperCol: the column is left in the case it came in
UpperColKeepingCase(df, c) == df

UpperCol(df, c) == MapCol(df, c, LAMBDA x : StrCell(Upper(x.s)))

\* concat_relationship_files, from the three pickled tables to the table handed to to_csv
Unify(d, b, a) ==
    LET c0 == Concat(<<d, b, a>>)
    IN  IF ~HasCol(c0, "ref_count:int") \/ ~HasCol(c0, "msrc_id") \/ ~HasCol(c0, "type:TYPE")
        THEN Raise("KeyError")
        ELSE LET c1 == SentinelPasses(FillRefCount(c0))
             IN  IF ~(CanCastCol(c1, "ref_count:int") /\ CanCastCol(c1, "msrc_id"))
                 THEN Raise("ValueError")
                 ELSE LET c2 == AsInt64(AsInt16(c1, "ref_count:int"), "msrc_id")
                          c3 == convert_object_to_category(drop_duplicates(c2))
                      IN  IF ~CanUpperCol(c3, "type:TYPE") THEN Raise("AttributeError")
                          ELSE Ok(Project(UpperCol(c3, "type:TYPE"), d.cols))

\* a faulty variant of HeaderFile: the file is written without the names
HeaderFileWithoutNames(cols) == [cols |-> <<>>, rows |-> <<>>]

\* create_header_file(cols, header_path): the column names alone
HeaderFile(cols) == [cols |-> cols, rows |-> <<>>]

----------------------------------------------------------------------------
(* DataPaths and the files *)

DataPaths ==
    [directional_rels |-> <<"directional_rels_raw", ".txt">>,
     bidirectional_rels |-> <<"bidirectional_rels_raw", ".txt">>,
     attribute_rels |-> <<"attribute_rels_raw", ".txt">>,
     directional_rels_procd |-> <<"directional_rels_procd", ".pkl">>,
     bidirectional_rels_procd |-> <<"bidirectional_rels_procd", ".pkl">>,
     attribute_rels_procd |-> <<"attribute_rels_procd", ".pkl">>,
     concat_relationships_procd |-> <<"relations", ".txt">>,
     nodes_raw |-> <<"nodes_raw", ".txt">>,
     nodes_procd |-> <<"nodes", ".txt">>,
     nodes_header |-> <<"nodes_header", ".txt">>,
     relationships_header |-> <<"relations_header", ".txt">>]

Exists(files, path) == path \in DOMAIN files

\* a faulty variant of WriteFile: an existing file is appended to
WriteFileAppending(files, path, content) ==
    [p \in (DOMAIN files) \cup {path} |->
        IF p # path THEN files[p]
        ELSE IF path \in DOMAIN files
             THEN [content EXCEPT !.rows = files[path].rows \o content.rows]
             ELSE content]

\* the files after path was written with content
WriteFile(files, path, content) ==
    [p \in (DOMAIN files) \cup {path} |-> IF p = path THEN content ELSE files[p]]

\* a raw delimited file: rows of text fields, no header
RawFile(rows) ==
    [cols |-> <<>>,
     rows |-> [i \in 1..Len(rows) |-> [j \in 1..Len(rows[i]) |-> StrCell(rows[i][j])]]]

----------------------------------------------------------------------------
(* Raw extracts the run starts from *)

tRegulation == <<"R", "e", "g", "u", "l", "a", "t", "i", "o", "n">>

tregulation == <<"r", "e", "g", "u", "l", "a", "t", "i", "o", "n">>

tBinding == <<"B", "i", "n", "d", "i", "n", "g">>

tExpression == <<"E", "x", "p", "r", "e", "s", "s", "i", "o", "n">>

tpositive == <<"p", "o", "s", "i", "t", "i", "v", "e">>

tassoc == <<"a", "s", "s", "o", "c">>

tphase1 == <<"p", "h", "a", "s", "e", "1">>

\* a row of directional_sql_query: the eight descriptive aggregates between id2 and
\* nct_id are NULL (empty fields)
DirRow(id, start, type, effect, mechanism, refs, end, phase) ==
    <<id, start, type, effect, mechanism, refs, end, id,
      <<>>, <<>>, <<>>, <<>>, <<>>, <<>>, <<>>, <<>>, <<>>, phase>>

\* a row of bi_directional_sql_query: inkey[1] and outkey[1] come through start and end
BiRow(id, start, key, type, relationship, effect, refs, end) ==
    <<id, start, key, type, relationship, effect, <<>>, refs, end, id,
      <<>>, <<>>, <<>>, <<>>, <<>>, <<>>, <<>>, <<>>>>

DirectionalRows ==
    { DirRow(<<"1">>, <<"1", "0">>, tRegulation, tpositive, <<>>, <<"3">>, <<"2", "0">>, tphase1),
      DirRow(<<"1">>, <<"1", "0">>, tregulation, tpositive, <<>>, <<"3">>, <<"2", "0">>, tphase1),
      DirRow(<<"4">>, <<"1", "1">>, tBinding, <<" ">>, tnan, <<"2">>, <<"2", "1">>, <<>>) }

BidirectionalRows ==
    { BiRow(<<"2">>, <<>>, <<"[", "3", "0", ",", "4", "0", "]">>, tBinding, tassoc, <<>>,
            <<"1">>, <<"5", "0">>),
      BiRow(<<"1">>, <<>>, <<"[", " ", "1", "0", " ", ",", "2", "0", "]">>, tRegulation, tassoc,
            tpositive, <<"3">>, <<>>),
      BiRow(<<"7">>, <<>>, <<"[", "3", "0", "]">>, tBinding, tassoc, <<>>, <<"1">>, <<>>) }

AttributeRows ==
    { << <<"3">>, <<"6", "0">>, <<"9", "9">>, tExpression, <<"7", "0">> >>,
      << <<"5">>, <<"6", "1">>, <<"9", "8">>, <<>>, <<"7", "1">> >>,
      << <<"6">>, <<"6", "x">>, <<"9", "7">>, tExpression, <<"7", "2">> >> }

RelInit ==
    /\ inOutkey = <<>>
    /\ decoded = NotCalled
    /\ inv = NoInvocations
    /\ \E d \in SeqsUpTo(DirectionalRows, MaxDirRows) :
       \E b \in SeqsUpTo(BidirectionalRows, MaxRelRows) :
       \E a \in SeqsUpTo(AttributeRows, MaxRelRows) :
          fs = WriteFile(WriteFile(WriteFile(NoFiles,
                    DataPaths.directional_rels, RawFile(d)),
                    DataPaths.bidirectional_rels, RawFile(b)),
                    DataPaths.attribute_rels, RawFile(a))
    /\ pc = "process_directional_rels"
    /\ err = "none"
    /\ CliIdle
    /\ ExtractIdle

\* a faulty variant of RunStage: a stage that raised is followed by the next stage
RunStageContinuing(stage, result, output, next) ==
    /\ pc = stage
    /\ pc' = next
    /\ IF result.st = "ok"
       THEN fs' = WriteFile(fs, output, result.df) /\ err' = "none"
       ELSE err' = result.st /\ UNCHANGED fs
    /\ UNCHANGED <<decodeVars, inv, cliVars, extractVars>>

\* a stage of DataProcessor: read the input, compute, write the output (or raise)
RunStage(stage, result, output, next) ==
    /\ pc = stage
    /\ IF result.st = "ok"
       THEN /\ fs' = WriteFile(fs, output, result.df)
            /\ pc' = next
            /\ err' = "none"
       ELSE /\ pc' = "failed"
            /\ err' = result.st
            /\ UNCHANGED fs
    /\ UNCHANGED <<decodeVars, inv, cliVars, extractVars>>

\* pd.read_csv / pd.read_pickle of a path: the content, or FileNotFoundError
Load(path, f(_)) == IF Exists(fs, path) THEN f(fs[path]) ELSE Raise("FileNotFoundError")

process_directional_rels ==
    RunStage("process_directional_rels",
             Load(DataPaths.directional_rels, NormalizeDirectional),
             DataPaths.directional_rels_procd, "process_bi_directional_rels")

process_bi_directional_rels ==
    RunStage("process_bi_directional_rels",
             Load(DataPaths.bidirectional_rels, NormalizeBidirectional),
             DataPaths.bidirectional_rels_procd, "process_attribute_rels")

process_attribute_rels ==
    RunStage("process_attribute_rels",
             Load(DataPaths.attribute_rels, NormalizeAttribute),
             DataPaths.attribute_rels_procd, "concat_relationship_files")

\* the three pickles read back and unified
UnifyFiles(files, pd, pb, pa) ==
    IF Exists(files, pd) /\ Exists(files, pb) /\ Exists(files, pa)
    THEN Unify(files[pd], files[pb], files[pa])
    ELSE Raise("FileNotFoundError")

\* concat_relationship_files: relations.txt, then the header file
concat_relationship_files ==
    /\ pc = "concat_relationship_files"
    /\ LET r == UnifyFiles(fs, DataPaths.directional_rels_procd,
                           DataPaths.bidirectional_rels_procd,
                           DataPaths.attribute_rels_procd)
       IN  IF r.st = "ok"
           THEN /\ fs' = WriteFile(WriteFile(fs, DataPaths.concat_relationships_procd,
                                             ToCsv(r.df)),
                                   DataPaths.relationships_header, HeaderFile(r.df.cols))
                /\ pc' = "done"
                /\ err' = "none"
           ELSE /\ pc' = "failed"
                /\ err' = r.st
                /\ UNCHANGED fs
    /\ UNCHANGED <<decodeVars, inv, cliVars, extractVars>>

RelNext ==
    \/ process_directional_rels
    \/ process_bi_directional_rels
    \/ process_attribute_rels
    \/ concat_relationship_files

SpecRel == RelInit /\ [][RelNext]_vars

----------------------------------------------------------------------------
(* Claims about the decoder *)

CountChar(s, c) == Len(SelectSeq(s, LAMBDA x : x = c))

AllSpace(s) == \A i \in 1..Len(s) : IsSpace(s[i])

\* t is pad A pad , pad B pad with A, B free of surrounding whitespace
IsPaddedPair(t, a, b) ==
    \E i \in 1..Len(t) :
        /\ t[i] = ","
        /\ \E l1 \in 0..(i - 1) : \E r1 \in 0..(i - 1 - l1) :
              /\ AllSpace(SubSeq(t, 1, l1))
              /\ AllSpace(SubSeq(t, i - r1, i - 1))
              /\ a = SubSeq(t, l1 + 1, i - 1 - r1)
        /\ \E l2 \in 0..(Len(t) - i) : \E r2 \in 0..(Len(t) - i - l2) :
              /\ AllSpace(SubSeq(t, i + 1, i + l2))
              /\ AllSpace(SubSeq(t, Len(t) - r2 + 1, Len(t)))
              /\ b = SubSeq(t, i + l2 + 1, Len(t) - r2)

NoOuterSpace(s) == s = <<>> \/ (~IsSpace(Head(s)) /\ ~IsSpace(Last(s)))

\* C1: a token with other than exactly two comma-separated parts never decodes
\* to a pair of ids (the decode fails instead).
C1_MalformedNeverDecodes ==
    \A i \in 1..Len(inOutkey) :
        (decoded.st # "none" /\ CountChar(inOutkey[i], ",") # 1) => decoded.st # "ok"

\* C2: a token with exactly one comma decodes to (A, B): the brackets removed,
\* the text before and after the comma, each stripped of surrounding whitespace,
\* in the original order.
C2_PairDecoded ==
    \A i \in 1..Len(inOutkey) :
        (decoded.st # "none" /\ CountChar(inOutkey[i], ",") = 1) =>
            /\ decoded.st = "ok"
            /\ Len(decoded.first_ids) = Len(inOutkey)
            /\ Len(decoded.second_ids) = Len(inOutkey)
            /\ LET a == decoded.first_ids[i]
                   b == decoded.second_ids[i]
               IN  /\ NoOuterSpace(a) /\ NoOuterSpace(b)
                   /\ CountChar(a, "[") + CountChar(a, "]") = 0
                   /\ CountChar(b, "[") + CountChar(b, "]") = 0
                   /\ IsPaddedPair(CleanKey(inOutkey[i]), a, b)

\* "[1,2]" gives ("1","2") and a padded token gives the stripped parts
C2_Witness ==
    /\ decoded.st = "ok"
    /\ inOutkey = << <<"[", " ", "1", ",", "2">> >>
    /\ decoded.first_ids = << <<"1">> >>
    /\ decoded.second_ids = << <<"2">> >>

----------------------------------------------------------------------------
(* NodeNormalizer: process_node_file *)

node_columns == <<":ID", "name", ":LABEL">>

\* a faulty variant of ReplaceSemicolons: only the doubled form is remapped
ReplaceDoubledOnly(s) ==
    LET F[i \in 1..(Len(s) + 1)] ==
            IF i > Len(s) THEN <<>>
            ELSE IF s[i] = ";" /\ i < Len(s) /\ s[i + 1] = ";"
                 THEN <<":">> \o (IF i + 2 > Len(s) THEN <<>> ELSE F[i + 2])
                 ELSE <<s[i]>> \o F[i + 1]
    IN  F[1]

\* name.replace([';;', ';'], ':', regex=True): from the left, every ';;' and then every
\* remaining ';' becomes ':'
ReplaceSemicolons(s) ==
    LET F[i \in 1..(Len(s) + 1)] ==
            IF i > Len(s) THEN <<>>
            ELSE IF s[i] = ";" /\ i < Len(s) /\ s[i + 1] = ";"
                 THEN <<":">> \o (IF i + 2 > Len(s) THEN <<>> ELSE F[i + 2])
                 ELSE IF s[i] = ";" THEN <<":">> \o F[i + 1]
                      ELSE <<s[i]>> \o F[i + 1]
    IN  F[1]

\* process_node_file, from the raw file's content to the table handed to to_csv
NormalizeNodes(file) ==
    LET r == ReadRaw(file, node_columns)
    IN  IF r.st # "ok" THEN r
        ELSE LET df1 == MapCols(r.df, Range(r.df.cols), LAMBDA x : StrCell(Strip(PyStr(x))))
                 df2 == UpperCol(df1, ":LABEL")
             IN  IF ~CanCastCol(df2, ":ID") THEN Raise("ValueError")
                 ELSE Ok(MapCol(AsInt64(df2, ":ID"), "name",
                                LAMBDA x : StrCell(ReplaceSemicolons(x.s))))

tProtein == <<"P", "r", "o", "t", "e", "i", "n">>

tcell == <<"c", "e", "l", "l", " ">>

\* names of node_sql_query rows: plain, with ';' and ';;', with the field delimiter, and
\* the pathological cell holding newline-separated 'id|name|label' sub-records
NodeNames ==
    { <<"a">>,
      <<"a", ";", "b">>,
      <<"a", ";", ";", "b", ";">>,
      <<"a", "|", "b">>,
      <<"7", "|", "b", "|", "p">>,
      <<"x", "\n", "7", "|", "b", "|", "p", "\n", "8", "|", "c", "|", "p">> }

\* the i-th row of the node extract carries id i
NodeRowsAt(i) == {<<IntToText(i), name, label>> : name \in NodeNames, label \in {tProtein, tcell}}

NodeTables ==
    UNION {{t \in [1..k -> UNION {NodeRowsAt(i) : i \in 1..k}] :
                \A i \in 1..k : t[i] \in NodeRowsAt(i)} : k \in 0..MaxNodeRows}

NodeInit ==
    /\ inOutkey = <<>>
    /\ decoded = NotCalled
    /\ inv = NoInvocations
    /\ \E t \in NodeTables : fs = WriteFile(NoFiles, DataPaths.nodes_raw, RawFile(t))
    /\ pc = "process_node_file"
    /\ err = "none"
    /\ CliIdle
    /\ ExtractIdle

\* process_node_file: nodes.txt, then the header file
process_node_file ==
    /\ pc = "process_node_file"
    /\ LET r == IF Exists(fs, DataPaths.nodes_raw) THEN NormalizeNodes(fs[DataPaths.nodes_raw])
                ELSE Raise("FileNotFoundError")
       IN  IF r.st = "ok"
           THEN /\ fs' = WriteFile(WriteFile(fs, DataPaths.nodes_procd, ToCsv(r.df)),
                                   DataPaths.nodes_header, HeaderFile(r.df.cols))
                /\ pc' = "done"
                /\ err' = "none"
           ELSE /\ pc' = "failed"
                /\ err' = r.st
                /\ UNCHANGED fs
    /\ UNCHANGED <<decodeVars, inv, cliVars, extractVars>>

NodeNext == process_node_file

SpecNode == NodeInit /\ [][NodeNext]_vars

----------------------------------------------------------------------------
(* Claims about the NodeNormalizer (SpecNode) *)

NodesWritten == Exists(fs, DataPaths.nodes_procd)

Nodes == fs[DataPaths.nodes_procd]

RawNodes == fs[DataPaths.nodes_raw]

\* the number of sub-records a name cell encodes: its lines that split on the field
\* delimiter into exactly three fields
EmbeddedCount(name) ==
    LET lines == Split(name, "\n")
    IN  Cardinality({l \in 1..Len(lines) : Len(Split(lines[l], "|")) = 3})

\* C3: when exactly one raw row is pathological (its name encodes k >= 1 sub-records)
\* among N rows, the written node table has N - 1 + k rows and none with that row's id.
C3_NodeExpansion ==
    NodesWritten =>
        \A p \in 1..Len(RawNodes.rows) :
            (/\ EmbeddedCount(RawNodes.rows[p][2].s) >= 1
             /\ \A q \in 1..Len(RawNodes.rows) :
                    q # p => EmbeddedCount(RawNodes.rows[q][2].s) = 0)
            => /\ Len(Nodes.rows) =
                      Len(RawNodes.rows) - 1 + EmbeddedCount(RawNodes.rows[p][2].s)
               /\ \A i \in 1..Len(Nodes.rows) :
                      Cell(Nodes, Nodes.rows[i], ":ID").s # RawNodes.rows[p][1].s

\* C4: no name written to the node file contains the field delimiter '|'.
C4_NoDelimiterInName ==
    NodesWritten =>
        \A i \in 1..Len(Nodes.rows) : CountChar(Cell(Nodes, Nodes.rows[i], "name").s, "|") = 0

----------------------------------------------------------------------------
(* Claims about the Unifier (SpecRel) *)

RelationsWritten == Exists(fs, DataPaths.concat_relationships_procd)

Relations == fs[DataPaths.concat_relationships_procd]

\* the written fields of column c, in row order
WrittenColumn(t, c) == [i \in 1..Len(t.rows) |-> Cell(t, t.rows[i], c).s]

\* the three intermediate tables the Unifier read
Intermediates ==
    <<fs[DataPaths.directional_rels_procd], fs[DataPaths.bidirectional_rels_procd],
      fs[DataPaths.attribute_rels_procd]>>

\* C5: no cell of the written relationship table is null (an empty field), the empty
\* string, "nan" or "None": "_" is the only representation of a missing value.
C5_SingleSentinel ==
    RelationsWritten =>
        \A i \in 1..Len(Relations.rows) : \A j \in 1..Len(Relations.cols) :
            Relations.rows[i][j].s \notin {<<>>, tnan, tNone}

\* C6: the written relationship table holds no two identical rows.
C6_NoDuplicateRows ==
    RelationsWritten =>
        \A i, j \in 1..Len(Relations.rows) :
            Relations.rows[i] = Relations.rows[j] => i = j

\* C7: the written relationship table has at most count(d) + count(b) + count(a) rows,
\* and each of its rows carries the msrc_id, start and end id of a row of an input.
C7_RowCountBounded ==
    pc = "done" =>
        /\ Len(Relations.rows) <=
              Len(Intermediates[1].rows) + Len(Intermediates[2].rows)
              + Len(Intermediates[3].rows)
        /\ \A i \in 1..Len(Relations.rows) :
              \E f \in 1..3 : \E r \in 1..Len(Intermediates[f].rows) :
                  \A c \in {"msrc_id", ":START_ID", ":END_ID"} :
                      Cell(Relations, Relations.rows[i], c).s
                          = PyStr(Cell(Intermediates[f], Intermediates[f].rows[r], c))

\* the Unifier ran on inputs with a duplicate, and with rows from all three variants
C7_Witness ==
    /\ pc = "done"
    /\ Len(Intermediates[1].rows) = 2
    /\ Len(Intermediates[2].rows) = 1
    /\ Len(Intermediates[3].rows) = 1
    /\ Len(Relations.rows) = 3

\* the raw extracts of the end-to-end scenario
ScenarioInputs ==
    /\ Exists(fs, DataPaths.directional_rels)
    /\ Exists(fs, DataPaths.bidirectional_rels)
    /\ Exists(fs, DataPaths.attribute_rels)
    /\ fs[DataPaths.directional_rels] =
          RawFile(<<DirRow(<<"1">>, <<"1", "0">>, tRegulation, tpositive, <<>>, <<"3">>,
                           <<"2", "0">>, tphase1)>>)
    /\ fs[DataPaths.bidirectional_rels] =
          RawFile(<<BiRow(<<"2">>, <<>>, <<"[", "3", "0", ",", "4", "0", "]">>, tBinding,
                          tassoc, <<>>, <<"1">>, <<"5", "0">>)>>)
    /\ fs[DataPaths.attribute_rels] =
          RawFile(<< << <<"3">>, <<"6", "0">>, <<"9", "9">>, tExpression, <<"7", "0">> >> >>)

\* C8: the end-to-end scenario ends with a unified table of exactly 3 rows, start ids
\* 10, 30, 60, end ids 20, 40, 70, types REGULATION, BINDING, EXPRESSION, ref_counts
\* 3, 1, 0 and no null cell.
C8_EndToEnd ==
    (ScenarioInputs /\ pc \in {"done", "failed"}) =>
        /\ pc = "done"
        /\ Len(Relations.rows) = 3
        /\ WrittenColumn(Relations, ":START_ID") = << <<"1", "0">>, <<"3", "0">>, <<"6", "0">> >>
        /\ WrittenColumn(Relations, ":END_ID") = << <<"2", "0">>, <<"4", "0">>, <<"7", "0">> >>
        /\ WrittenColumn(Relations, "type:TYPE") =
              << <<"R", "E", "G", "U", "L", "A", "T", "I", "O", "N">>,
                 <<"B", "I", "N", "D", "I", "N", "G">>,
                 <<"E", "X", "P", "R", "E", "S", "S", "I", "O", "N">> >>
        /\ WrittenColumn(Relations, "ref_count:int") = << <<"3">>, <<"1">>, <<"0">> >>
        /\ WrittenColumn(Relations, "msrc_id") = << <<"1">>, <<"2">>, <<"3">> >>
        /\ \A i \in 1..3 : \A j \in 1..Len(Relations.cols) : Relations.rows[i][j].s # <<>>

C8_Witness == ScenarioInputs /\ pc = "done" /\ Len(Relations.rows) = 3

----------------------------------------------------------------------------
(* ConfigStore: file_paths.json *)

\* file_paths.get(key)
ConfigGet(cfg, key) == IF key \in DOMAIN cfg.paths THEN cfg.paths[key] ELSE None

\* a faulty variant of UpdateConfig: the file is rewritten with the new key alone
UpdateConfigFresh(cfg, key, value) ==
    [exists |-> TRUE, paths |-> [k \in {key} |-> value]]

\* _update_config_file(key, value): load the map (or start from {}), set the key, write
UpdateConfig(cfg, key, value) ==
    [exists |-> TRUE,
     paths |-> [k \in (DOMAIN cfg.paths) \cup {key} |->
                  IF k = key THEN value ELSE cfg.paths[k]]]

\* a faulty variant of ensure_extension: the extension is always appended
always_append_extension(file_name, extension) == Append(file_name, extension)

\* ensure_extension(file_name, extension); a name is its dot-separated pieces, so
\* endswith(extension) looks at the last piece
ensure_extension(file_name, extension) ==
    IF file_name # <<>> /\ Last(file_name) = extension THEN file_name
    ELSE Append(file_name, extension)

\* the --file_name values tried
FileNames == {<<"out">>, <<"out", ".txt">>, <<"out", ".pkl">>}

----------------------------------------------------------------------------
(* Extraction: CreateDatasets.create_*_ds, statement by statement *)

ExtractMethods ==
    {"create_directional_ds", "create_bi_directional_ds", "create_attributes_ds",
     "create_nodes_ds"}

\* the config key each extraction stage records its file under
DatasetKey(method) ==
    CASE method = "create_directional_ds" -> "directional_ds"
      [] method = "create_bi_directional_ds" -> "bi_directional_ds"
      [] method = "create_attributes_ds" -> "attributes_ds"
      [] OTHER -> "nodes_ds"

\* the rows the stage's query can return
QueryRows(method) ==
    CASE method = "create_directional_ds" -> DirectionalRows
      [] method = "create_bi_directional_ds" -> BidirectionalRows
      [] method = "create_attributes_ds" -> AttributeRows
      [] OTHER -> NodeRowsAt(1)

\* output_path = os.path.join(base_path, file_name), '.txt' appended when missing
OutputPath == ensure_extension(args.file_name, ".txt")

\* an extract left by an earlier run
OldExtract == RawFile(<< << <<"9">>, <<"o", "l", "d">> >> >>)

ExtractInit ==
    /\ inOutkey = <<>>
    /\ decoded = NotCalled
    /\ inv = NoInvocations
    /\ err = "none"
    /\ dp = NewDataProcessor
    /\ todo = <<>>
    /\ conn = "none"
    /\ at = "connect"
    /\ \E method \in ExtractMethods, name \in FileNames, old \in BOOLEAN :
          /\ pc = method
          /\ args = [method |-> <<method>>, file_name |-> name]
          /\ db \in SeqsUpTo(QueryRows(method), MaxRecords)
          /\ fs = IF old THEN WriteFile(NoFiles, ensure_extension(name, ".txt"), OldExtract)
                  ELSE NoFiles
          /\ before = IF old THEN [exists |-> TRUE, content |-> OldExtract] ELSE NotStarted
          /\ config = IF old
                      THEN UpdateConfig(NoConfig, DatasetKey(method),
                                        ensure_extension(name, ".txt"))
                      ELSE NoConfig

\* an exception inside the try block: control goes to the finally clause
RaiseInTry(e) == at' = "finally" /\ err' = e

\* conn = self.create_connection_to_postgresql_db(), before the try block
Connect ==
    /\ at = "connect"
    /\ \/ conn' = "open" /\ at' = "open" /\ UNCHANGED <<pc, err>>
       \/ conn' = "none" /\ at' = "raised" /\ pc' = "failed" /\ err' = "DatabaseError"
    /\ UNCHANGED <<decodeVars, inv, fs, cliVars, db, before>>

\* with conn.cursor() as cur: with open(output_path, 'w') as f: the file is created or
\* truncated
OpenOutput ==
    /\ at = "open"
    /\ \/ fs' = WriteFile(fs, OutputPath, RawFile(<<>>)) /\ at' = "execute" /\ UNCHANGED err
       \/ RaiseInTry("IOError") /\ UNCHANGED fs
    /\ UNCHANGED <<decodeVars, inv, pc, cliVars, db, conn, before>>

\* cur.execute(query)
Execute ==
    /\ at = "execute"
    /\ \/ at' = "write" /\ UNCHANGED err
       \/ RaiseInTry("DatabaseError")
    /\ UNCHANGED <<decodeVars, inv, fs, pc, cliVars, db, conn, before>>

\* for record in cur.fetchall(): csv_writer.writerow(record)
WriteRecord ==
    /\ at = "write"
    /\ Len(fs[OutputPath].rows) < Len(db)
    /\ \/ /\ fs' = WriteFile(fs, OutputPath,
                             RawFile([i \in 1..(Len(fs[OutputPath].rows) + 1) |-> db[i]]))
          /\ UNCHANGED <<at, err>>
       \/ RaiseInTry("IOError") /\ UNCHANGED fs
    /\ UNCHANGED <<decodeVars, inv, pc, cliVars, db, conn, before>>

\* a faulty variant of RecordDataset: the key is recorded inside the loop over the
\* records, before the last of them is written
RecordDatasetBeforeWrite ==
    /\ at = "write"
    /\ Len(fs[OutputPath].rows) < Len(db)
    /\ config' = UpdateConfig(config, DatasetKey(pc), OutputPath)
    /\ at' = "finally"
    /\ UNCHANGED <<decodeVars, inv, fs, pc, err, args, dp, todo, db, conn, before>>

\* the with blocks are left, then self._update_config_file(key, output_path)
RecordDataset ==
    /\ at = "write"
    /\ Len(fs[OutputPath].rows) = Len(db)
    /\ \/ /\ config' = UpdateConfig(config, DatasetKey(pc), OutputPath)
          /\ at' = "finally"
          /\ UNCHANGED err
       \/ RaiseInTry("IOError") /\ UNCHANGED config
    /\ UNCHANGED <<decodeVars, inv, fs, pc, args, dp, todo, db, conn, before>>

\* a faulty variant of Finally: the connection is closed on the success path only
FinallyClosingOnSuccess ==
    /\ at = "finally"
    /\ conn' = IF err = "none" THEN "closed" ELSE conn
    /\ at' = IF err = "none" THEN "returned" ELSE "raised"
    /\ pc' = IF err = "none" THEN "done" ELSE "failed"
    /\ UNCHANGED <<decodeVars, inv, fs, err, cliVars, db, before>>

\* finally: if conn: conn.close(); then the stage returns or the exception propagates
Finally ==
    /\ at = "finally"
    /\ conn' = "closed"
    /\ at' = IF err = "none" THEN "returned" ELSE "raised"
    /\ pc' = IF err = "none" THEN "done" ELSE "failed"
    /\ UNCHANGED <<decodeVars, inv, fs, err, cliVars, db, before>>

ExtractNext ==
    \/ Connect
    \/ OpenOutput
    \/ Execute
    \/ WriteRecord
    \/ RecordDataset
    \/ Finally

SpecExtract == ExtractInit /\ [][ExtractNext]_vars

\* C9: when a stage has failed, its output path holds the content it had before the
\* stage started, or no file at all.
C9_NoPartialOutput ==
    pc = "failed" =>
        \/ ~Exists(fs, OutputPath)
        \/ before.exists /\ fs[OutputPath] = before.content

----------------------------------------------------------------------------
(* Command-line driver: preprocess_resnet_neo4j_data.py main *)

Methods ==
    {"process_directional_rels", "process_bi_directional_rels", "process_attribute_rels",
     "concat_relationship_files", "process_node_file"}

\* process_attribute_rels of the command-line script: missing cells become 'None', rows
\* whose type is 'None' are removed, then the columns are stripped and the ids cast
NormalizeAttributeLegacy(file) ==
    LET r == ReadRaw(file, attribute_columns)
    IN  IF r.st # "ok" THEN r
        ELSE LET df0 == FillNaAll(r.df, StrCell(tNone))
                 df1 == [df0 EXCEPT !.rows = SelectSeq(df0.rows,
                             LAMBDA row : Cell(df0, row, "type:TYPE") # StrCell(tNone))]
                 df2 == DropCols(df1, {"id2"})
                 df3 == MapCols(df2, Range(df2.cols), LAMBDA x : StrCell(Strip(PyStr(x))))
                 df4 == ToNumericCoerce(df3, ":START_ID")
             IN  IF ~CanCastCol(df4, ":START_ID") THEN Raise("IntCastingNaNError")
                 ELSE LET df5 == ToNumericCoerce(AsInt64(df4, ":START_ID"), ":END_ID")
                      IN  IF ~CanCastCol(df5, ":END_ID") THEN Raise("IntCastingNaNError")
                          ELSE Ok(AsInt64(df5, ":END_ID"))

\* _load_dataset_file_paths: every attribute is file_paths.get(key)
LoadedPaths(cfg) ==
    [directional_ds |-> ConfigGet(cfg, "directional_ds"),
     bi_directional_ds |-> ConfigGet(cfg, "bi_directional_ds"),
     attributes_ds |-> ConfigGet(cfg, "attributes_ds"),
     nodes_ds |-> ConfigGet(cfg, "nodes_ds"),
     procd_biDirect_rels |-> ConfigGet(cfg, "procd_biDirect_rels"),
     procd_direct_rels |-> ConfigGet(cfg, "procd_direct_rels"),
     procd_attrib_rels |-> ConfigGet(cfg, "procd_attrib_rels")]

\* the raw extracts an invocation finds on disk
ScenarioRaw ==
    [directional_rels |->
        RawFile(<<DirRow(<<"1">>, <<"1", "0">>, tRegulation, tpositive, <<>>, <<"3">>,
                         <<"2", "0">>, tphase1),
                  DirRow(<<"4">>, <<"1", "1">>, tBinding, <<>>, <<>>, <<"2">>, <<"2", "1">>,
                         <<>>)>>),
     bidirectional_rels |->
        RawFile(<<BiRow(<<"2">>, <<>>, <<"[", "3", "0", ",", "4", "0", "]">>, tBinding, tassoc,
                        <<>>, <<"1">>, <<"5", "0">>)>>),
     attribute_rels |->
        RawFile(<< << <<"3">>, <<"6", "0">>, <<"9", "9">>, tExpression, <<"7", "0">> >> >>),
     nodes_raw |->
        RawFile(<< <<(<<"1">>), (<<"a", ";", "b">>), tProtein>>,
                   <<(<<"2">>), (<<"c">>), tcell>> >>)]

\* the raw extracts in place
RawOnDisk ==
    WriteFile(WriteFile(WriteFile(WriteFile(NoFiles,
        DataPaths.directional_rels, ScenarioRaw.directional_rels),
        DataPaths.bidirectional_rels, ScenarioRaw.bidirectional_rels),
        DataPaths.attribute_rels, ScenarioRaw.attribute_rels),
        DataPaths.nodes_raw, ScenarioRaw.nodes_raw)

\* file_paths.json as the four extraction stages leave it
RawConfig ==
    UpdateConfig(UpdateConfig(UpdateConfig(UpdateConfig(NoConfig,
        "directional_ds", DataPaths.directional_rels),
        "bi_directional_ds", DataPaths.bidirectional_rels),
        "attributes_ds", DataPaths.attribute_rels),
        "nodes_ds", DataPaths.nodes_raw)

\* the disk after three earlier invocations, one normalizer each, each under its own name
ProcdOnDisk ==
    WriteFile(WriteFile(WriteFile(RawOnDisk,
        DataPaths.directional_rels_procd, NormalizeDirectional(ScenarioRaw.directional_rels).df),
        DataPaths.bidirectional_rels_procd,
            NormalizeBidirectional(ScenarioRaw.bidirectional_rels).df),
        DataPaths.attribute_rels_procd,
            NormalizeAttributeLegacy(ScenarioRaw.attribute_rels).df)

\* file_paths.json after those three invocations
ProcdConfig ==
    UpdateConfig(UpdateConfig(UpdateConfig(RawConfig,
        "procd_direct_rels", DataPaths.directional_rels_procd),
        "procd_biDirect_rels", DataPaths.bidirectional_rels_procd),
        "procd_attrib_rels", DataPaths.attribute_rels_procd)

\* what an invocation can start from: no config file, the extracts alone, or the extracts
\* and the three normalized tables
Disks ==
    { [fs |-> RawOnDisk, config |-> NoConfig],
      [fs |-> RawOnDisk, config |-> RawConfig],
      [fs |-> ProcdOnDisk, config |-> ProcdConfig] }

CliInit ==
    /\ inOutkey = <<>>
    /\ decoded = NotCalled
    /\ inv = NoInvocations
    /\ err = "none"
    /\ pc = "main"
    /\ dp = NewDataProcessor
    /\ ExtractIdle
    /\ \E disk \in Disks : fs = disk.fs /\ config = disk.config
    /\ \E method \in SeqsUpTo(Methods, MaxMethods), name \in FileNames :
          /\ method # <<>>
          /\ args = [method |-> method, file_name |-> name]
          /\ todo = method

\* dp = DataProcessor(base_path); dp._load_dataset_file_paths()
cli_load ==
    /\ pc = "main"
    /\ IF config.exists
       THEN dp' = LoadedPaths(config) /\ pc' = "loop" /\ UNCHANGED err
       ELSE pc' = "failed" /\ err' = "FileNotFoundError" /\ UNCHANGED dp
    /\ UNCHANGED <<decodeVars, inv, fs, config, args, todo, extractVars>>

\* pd.read_csv / pd.read_pickle of a path attribute: None is no path
LoadAt(files, path, f(_)) ==
    IF path = None THEN Raise("ValueError")
    ELSE IF Exists(files, path) THEN f(files[path]) ELSE Raise("FileNotFoundError")

\* one iteration of `for method in args.method` for a normalizer: the table is pickled to
\* ensure_extension(file_name, '.pkl') and the path recorded under key
CliStage(method, result, key) ==
    /\ pc = "loop"
    /\ todo # <<>>
    /\ Head(todo) = method
    /\ IF result.st = "ok"
       THEN /\ fs' = WriteFile(fs, ensure_extension(args.file_name, ".pkl"), result.df)
            /\ config' = UpdateConfig(config, key, ensure_extension(args.file_name, ".pkl"))
            /\ todo' = Tail(todo)
            /\ UNCHANGED <<pc, err>>
       ELSE /\ pc' = "failed"
            /\ err' = result.st
            /\ UNCHANGED <<fs, config, todo>>
    /\ UNCHANGED <<decodeVars, inv, args, dp, extractVars>>

cli_process_directional_rels ==
    CliStage("process_directional_rels",
             LoadAt(fs, dp.directional_ds, NormalizeDirectional), "procd_direct_rels")

cli_process_bi_directional_rels ==
    CliStage("process_bi_directional_rels",
             LoadAt(fs, dp.bi_directional_ds, NormalizeBidirectional), "procd_biDirect_rels")

cli_process_attribute_rels ==
    CliStage("process_attribute_rels",
             LoadAt(fs, dp.attributes_ds, NormalizeAttributeLegacy), "procd_attrib_rels")

\* the three pickles named by the reloaded path attributes, read back and unified
UnifyAt(files, paths) ==
    IF paths.procd_direct_rels = None \/ paths.procd_biDirect_rels = None
       \/ paths.procd_attrib_rels = None
    THEN Raise("ValueError")
    ELSE UnifyFiles(files, paths.procd_direct_rels, paths.procd_biDirect_rels,
                    paths.procd_attrib_rels)

\* create_header_file(cols, file_name, relationship) of the command-line script: the path
\* written and the config key that records it
HeaderPath(file_name) == ensure_extension(<<file_name>>, ".txt")

\* an iteration that writes a delimited file, records it under key, then writes the header
\* file and records it under header_key
CliWrite(result, key, header_name, header_key) ==
    IF result.st = "ok"
    THEN /\ fs' = WriteFile(WriteFile(fs, ensure_extension(args.file_name, ".txt"),
                                      ToCsv(result.df)),
                            HeaderPath(header_name), HeaderFile(result.df.cols))
         /\ config' = UpdateConfig(UpdateConfig(config, key,
                                                ensure_extension(args.file_name, ".txt")),
                                   header_key, HeaderPath(header_name))
         /\ todo' = Tail(todo)
         /\ UNCHANGED <<pc, err>>
    ELSE /\ pc' = "failed"
         /\ err' = result.st
         /\ UNCHANGED <<fs, config, todo>>

\* dp._load_dataset_file_paths(); dp.concat_relationship_files(args.file_name)
cli_concat_relationship_files ==
    /\ pc = "loop"
    /\ todo # <<>>
    /\ Head(todo) = "concat_relationship_files"
    /\ dp' = LoadedPaths(config)
    /\ CliWrite(UnifyAt(fs, LoadedPaths(config)), "concat_relations_file",
                "relationships_header", "relations_header")
    /\ UNCHANGED <<decodeVars, inv, args, extractVars>>

\* dp.process_node_file(args.file_name)
cli_process_node_file ==
    /\ pc = "loop"
    /\ todo # <<>>
    /\ Head(todo) = "process_node_file"
    /\ CliWrite(LoadAt(fs, dp.nodes_ds, NormalizeNodes), "procd_node_file",
                "nodes_header", "nodes_header")
    /\ UNCHANGED <<decodeVars, inv, args, dp, extractVars>>

\* the loop over args.method is exhausted: main returns
cli_end ==
    /\ pc = "loop"
    /\ todo = <<>>
    /\ pc' = "done"
    /\ UNCHANGED <<decodeVars, inv, fs, err, cliVars, extractVars>>

CliNext ==
    \/ cli_load
    \/ cli_process_directional_rels
    \/ cli_process_bi_directional_rels
    \/ cli_process_attribute_rels
    \/ cli_concat_relationship_files
    \/ cli_process_node_file
    \/ cli_end

SpecCli == CliInit /\ [][CliNext]_vars

\* the path attribute a normalizer reads and the config key it records its table under
StageOf(method) ==
    CASE method = "process_directional_rels" ->
            [key |-> "procd_direct_rels",
             table |-> LoadAt(fs, dp.directional_ds, NormalizeDirectional)]
      [] method = "process_bi_directional_rels" ->
            [key |-> "procd_biDirect_rels",
             table |-> LoadAt(fs, dp.bi_directional_ds, NormalizeBidirectional)]
      [] OTHER ->
            [key |-> "procd_attrib_rels",
             table |-> LoadAt(fs, dp.attributes_ds, NormalizeAttributeLegacy)]

Normalizers ==
    {"process_directional_rels", "process_bi_directional_rels", "process_attribute_rels"}

\* C10: after an invocation that ran to its end, the file recorded for every normalizer
\* it selected holds that normalizer's table.
C10_StageIndependence ==
    pc = "done" =>
        \A method \in Normalizers \cap Range(args.method) :
            /\ Exists(fs, ConfigGet(config, StageOf(method).key))
            /\ fs[ConfigGet(config, StageOf(method).key)] = StageOf(method).table.df

----------------------------------------------------------------------------
(* Claims about the command-line driver's artifacts *)

\* the config keys under which the final tables and their header files are recorded
TerminalKeys == {"concat_relations_file", "relations_header", "procd_node_file", "nodes_header"}

\* C11: once a final table or header file has been written and recorded, no later step
\* of the same invocation changes that file.
C11_TerminalArtifactsFinal ==
    [][\A key \in TerminalKeys \cap DOMAIN config.paths :
          fs'[config.paths[key]] = fs[config.paths[key]]]_vars

----------------------------------------------------------------------------
(* Extraction command line: resnet_datasets_neo4j.py main *)

\* the records a stage's query returns in the scenario
ScenarioRecords(method) ==
    LET file == CASE method = "create_directional_ds" -> ScenarioRaw.directional_rels
                  [] method = "create_bi_directional_ds" -> ScenarioRaw.bidirectional_rels
                  [] method = "create_attributes_ds" -> ScenarioRaw.attribute_rels
                  [] OTHER -> ScenarioRaw.nodes_raw
    IN  [i \in 1..Len(file.rows) |-> [j \in 1..Len(file.rows[i]) |-> file.rows[i][j].s]]

\* the output path as a stage finds it when it starts
Snapshot(files, path) ==
    IF Exists(files, path) THEN [exists |-> TRUE, content |-> files[path]] ELSE NotStarted

\* cd = CreateDatasets(base_path); the loop is about to call the first selected method
ExtractCliInit ==
    /\ inOutkey = <<>>
    /\ decoded = NotCalled
    /\ inv = NoInvocations
    /\ err = "none"
    /\ dp = NewDataProcessor
    /\ conn = "none"
    /\ at = "connect"
    /\ fs = NoFiles
    /\ config = NoConfig
    /\ before = NotStarted
    /\ \E method \in SeqsUpTo(ExtractMethods, MaxMethods), name \in FileNames :
          /\ method # <<>>
          /\ args = [method |-> method, file_name |-> name]
          /\ pc = Head(method)
          /\ todo = Tail(method)
          /\ db = ScenarioRecords(Head(method))

\* `for method in args.method`: the previous call returned, the next method is called
\* with the same args.file_name
next_method ==
    /\ pc = "done"
    /\ todo # <<>>
    /\ pc' = Head(todo)
    /\ todo' = Tail(todo)
    /\ db' = ScenarioRecords(Head(todo))
    /\ conn' = "none"
    /\ at' = "connect"
    /\ before' = Snapshot(fs, OutputPath)
    /\ UNCHANGED <<decodeVars, inv, fs, err, config, args, dp>>

ExtractCliNext ==
    \/ ExtractNext
    \/ next_method

SpecExtractCli == ExtractCliInit /\ [][ExtractCliNext]_vars

\* C12: when a stage has failed, every file that an earlier, completed stage of the run
\* recorded in the config store holds what it held when the failing stage started.
C12_FailureIsolation ==
    pc = "failed" =>
        \A key \in DOMAIN config.paths :
            config.paths[key] = OutputPath =>
                before.exists /\ fs[OutputPath] = before.content

----------------------------------------------------------------------------
(* The fixed pipeline: DataProcessingPipeline, start to end *)

\* raw directional extracts a run can find: the scenario row, a second row whose
\* ref_count is 40000, two rows whose types differ in case only
PipelineDirectional ==
    { <<DirRow(<<"1">>, <<"1", "0">>, tRegulation, tpositive, <<>>, <<"3">>, <<"2", "0">>,
               tphase1)>>,
      <<DirRow(<<"1">>, <<"1", "0">>, tRegulation, tpositive, <<>>, <<"3">>, <<"2", "0">>,
               tphase1),
        DirRow(<<"9">>, <<"1", "2">>, tBinding, tpositive, <<>>, <<"4", "0", "0", "0", "0">>,
               <<"2", "2">>, tphase1)>>,
      <<DirRow(<<"1">>, <<"1", "0">>, tregulation, tpositive, <<>>, <<"3">>, <<"2", "0">>,
               tphase1),
        DirRow(<<"4">>, <<"1", "1">>, tBinding, <<>>, <<>>, <<"2">>, <<"2", "1">>, <<>>)>>,
      <<DirRow(<<"8">>, <<"1", "3">>, tBinding, <<"n", "a", "n", "o">>,
               <<" ", "N", "o", "n", "e">>, <<"5">>, <<"2", "3">>,
               <<"N", "o", "n", "e", "x">>)>> }

\* raw bidirectional extracts: the scenario row alone, then followed by a row whose key
\* has one part, three parts, or padding
PipelineBidirectional ==
    LET good == BiRow(<<"2">>, <<>>, <<"[", "3", "0", ",", "4", "0", "]">>, tBinding, tassoc,
                      <<>>, <<"1">>, <<"5", "0">>)
        row(key) == BiRow(<<"7">>, <<>>, key, tRegulation, tassoc, tpositive, <<"2">>, <<>>)
    IN  { <<good>>,
          <<good, row(<<"[", "3", "1", "]">>)>>,
          <<good, row(<<"[", "3", "1", ",", "4", "1", ",", "5", "1", "]">>)>>,
          <<good, row(<<"[", " ", "3", "1", " ", ",", "4", "1", "]">>)>> }

\* raw attribute extracts: the scenario row, a row without a type, a row whose start id
\* is no number
PipelineAttribute ==
    { << << <<"3">>, <<"6", "0">>, <<"9", "9">>, tExpression, <<"7", "0">> >> >>,
      << << <<"3">>, <<"6", "0">>, <<"9", "9">>, tExpression, <<"7", "0">> >>,
         << <<"5">>, <<"6", "1">>, <<"9", "8">>, <<>>, <<"7", "1">> >> >>,
      << << <<"6">>, <<"6", "x">>, <<"9", "7">>, tExpression, <<"7", "2">> >> >> }

\* raw node extracts: no row, one row, two rows
PipelineNodes ==
    { <<>>,
      << <<(<<"1">>), (<<"a", ";", "b">>), tProtein>> >>,
      << <<(<<"1">>), (<<"a">>), tProtein>>, <<(<<"2">>), (<<"c">>), tcell>> >> }

PipelineInit ==
    /\ inOutkey = <<>>
    /\ decoded = NotCalled
    /\ inv = NoInvocations
    /\ \E d \in PipelineDirectional, b \in PipelineBidirectional,
          a \in PipelineAttribute, n \in PipelineNodes :
          fs = WriteFile(WriteFile(WriteFile(WriteFile(NoFiles,
                    DataPaths.directional_rels, RawFile(d)),
                    DataPaths.bidirectional_rels, RawFile(b)),
                    DataPaths.attribute_rels, RawFile(a)),
                    DataPaths.nodes_raw, RawFile(n))
    /\ pc = "start"
    /\ err = "none"
    /\ CliIdle
    /\ ExtractIdle

\* a faulty variant of pipeline_start: the flow begins at the Unifier
pipeline_start_at_concat ==
    /\ pc = "start"
    /\ pc' = "concat_relationship_files"
    /\ UNCHANGED <<decodeVars, inv, fs, err, cliVars, extractVars>>

\* the start step: self.dp = DataProcessor(); self.next(self.process_directional_rels)
pipeline_start ==
    /\ pc = "start"
    /\ pc' = "process_directional_rels"
    /\ UNCHANGED <<decodeVars, inv, fs, err, cliVars, extractVars>>

\* the concat_relationship_files step, followed by self.next(self.process_node_file)
pipeline_concat_relationship_files ==
    /\ pc = "concat_relationship_files"
    /\ LET r == UnifyFiles(fs, DataPaths.directional_rels_procd,
                           DataPaths.bidirectional_rels_procd,
                           DataPaths.attribute_rels_procd)
       IN  IF r.st = "ok"
           THEN /\ fs' = WriteFile(WriteFile(fs, DataPaths.concat_relationships_procd,
                                             ToCsv(r.df)),
                                   DataPaths.relationships_header, HeaderFile(r.df.cols))
                /\ pc' = "process_node_file"
                /\ err' = "none"
           ELSE /\ pc' = "failed"
                /\ err' = r.st
                /\ UNCHANGED fs
    /\ UNCHANGED <<decodeVars, inv, cliVars, extractVars>>

\* the end step, reached after process_node_file returned
pipeline_end ==
    /\ pc = "done"
    /\ pc' = "end"
    /\ UNCHANGED <<decodeVars, inv, fs, err, cliVars, extractVars>>

PipelineNext ==
    \/ pipeline_start
    \/ process_directional_rels
    \/ process_bi_directional_rels
    \/ process_attribute_rels
    \/ pipeline_concat_relationship_files
    \/ process_node_file
    \/ pipeline_end

SpecPipeline == PipelineInit /\ [][PipelineNext]_vars

----------------------------------------------------------------------------
(* Claims about the fixed pipeline *)

\* the five processing stages in flow order, and the file each one writes last
PipelineStages ==
    <<"process_directional_rels", "process_bi_directional_rels", "process_attribute_rels",
      "concat_relationship_files", "process_node_file">>

StageOutputs ==
    <<DataPaths.directional_rels_procd, DataPaths.bidirectional_rels_procd,
      DataPaths.attribute_rels_procd, DataPaths.relationships_header, DataPaths.nodes_header>>

StageWritten(i) == Exists(fs, StageOutputs[i])

\* C13: the stages run one at a time in flow order: the stage about to run finds the
\* output of every earlier stage and of no later one, so the Unifier starts with the
\* three intermediate tables written.
C13_StageOrder ==
    /\ pc \in Range(PipelineStages) \cup {"start", "done", "end", "failed"}
    /\ \A i \in 1..5 :
          pc = PipelineStages[i] =>
              /\ \A j \in 1..(i - 1) : StageWritten(j)
              /\ \A j \in i..5 : ~StageWritten(j)
    /\ \A i \in 1..5, j \in 1..5 : (i < j /\ StageWritten(j)) => StageWritten(i)
    /\ Exists(fs, DataPaths.concat_relationships_procd) => StageWritten(3)
    /\ Exists(fs, DataPaths.nodes_procd) => StageWritten(4)

\* the Unifier is about to start and the three intermediate tables are there
C13_Witness ==
    /\ pc = "concat_relationship_files"
    /\ StageWritten(1) /\ StageWritten(2) /\ StageWritten(3)
    /\ ~Exists(fs, DataPaths.concat_relationships_procd)

----------------------------------------------------------------------------
(* Two invocations against one base path, each inside _update_config_file *)

\* the (key, value) a processing stage passes to _update_config_file
ConfigWrites ==
    {[key |-> key, value |-> ensure_extension(name, ".pkl")] :
        key \in {"procd_direct_rels", "procd_biDirect_rels", "procd_attrib_rels"},
        name \in FileNames}

\* file_paths = {}
EmptyPaths == [k \in {} |-> None]

\* what json.load cannot parse: the bytes of two overlapping dumps
CorruptJson == [k \in {"<corrupt>"} |-> None]

\* the file was opened for writing and nothing has been dumped, or the bytes are mixed
Unreadable(cfg) == cfg.paths = EmptyPaths \/ cfg.paths = CorruptJson

ConcurrentInit ==
    /\ inOutkey = <<>>
    /\ decoded = NotCalled
    /\ fs = RawOnDisk
    /\ pc = "concurrent"
    /\ err = "none"
    /\ args = NoArgs
    /\ dp = NewDataProcessor
    /\ todo = <<>>
    /\ ExtractIdle
    /\ config \in {NoConfig, RawConfig}
    /\ \E w1 \in ConfigWrites, w2 \in ConfigWrites :
          inv = <<[at |-> "exists", key |-> w1.key, value |-> w1.value,
                   file_paths |-> EmptyPaths],
                  [at |-> "exists", key |-> w2.key, value |-> w2.value,
                   file_paths |-> EmptyPaths]>>

\* the variables a step inside _update_config_file leaves alone, the store apart
ConcurrentFrame == UNCHANGED <<decodeVars, runVars, args, dp, todo, extractVars>>

\* if os.path.exists(config_file): ... else: file_paths = {}
cfg_exists(i) ==
    /\ inv[i].at = "exists"
    /\ inv' = [inv EXCEPT ![i].at = IF config.exists THEN "load" ELSE "set"]
    /\ UNCHANGED config
    /\ ConcurrentFrame

\* with open(config_file, 'r') as f: file_paths = json.load(f); a file that another
\* invocation has truncated raises json.JSONDecodeError
cfg_load(i) ==
    /\ inv[i].at = "load"
    /\ inv' = IF Unreadable(config)
              THEN [inv EXCEPT ![i].at = "raised"]
              ELSE [inv EXCEPT ![i].at = "set", ![i].file_paths = config.paths]
    /\ UNCHANGED config
    /\ ConcurrentFrame

\* file_paths[key] = value
cfg_set(i) ==
    /\ inv[i].at = "set"
    /\ inv' = [inv EXCEPT ![i].at = "open",
                          ![i].file_paths =
                              UpdateConfig([exists |-> TRUE, paths |-> inv[i].file_paths],
                                           inv[i].key, inv[i].value).paths]
    /\ UNCHANGED config
    /\ ConcurrentFrame

\* with open(config_file, 'w') as f: the file is created or truncated
cfg_open(i) ==
    /\ inv[i].at = "open"
    /\ inv' = [inv EXCEPT ![i].at = "dump"]
    /\ config' = [exists |-> TRUE, paths |-> EmptyPaths]
    /\ ConcurrentFrame

\* a faulty variant of cfg_dump: only the new key is written
cfg_dump_key_only(i) ==
    /\ inv[i].at = "dump"
    /\ inv' = [inv EXCEPT ![i].at = "returned"]
    /\ config' = [exists |-> TRUE, paths |-> [k \in {inv[i].key} |-> inv[i].value]]
    /\ ConcurrentFrame

\* json.dump(file_paths, f) and the close: the map is written from offset 0; when the
\* other invocation has dumped since this one's open, the bytes of a longer earlier dump
\* may stay behind this one's
cfg_dump(i) ==
    /\ inv[i].at = "dump"
    /\ inv' = [inv EXCEPT ![i].at = "returned"]
    /\ \/ config' = [exists |-> TRUE, paths |-> inv[i].file_paths]
       \/ /\ config.paths # EmptyPaths
          /\ config' = [exists |-> TRUE, paths |-> CorruptJson]
    /\ ConcurrentFrame

ConcurrentNext ==
    \E i \in 1..2 :
        \/ cfg_exists(i)
        \/ cfg_load(i)
        \/ cfg_set(i)
        \/ cfg_open(i)
        \/ cfg_dump(i)

SpecConcurrent == ConcurrentInit /\ [][ConcurrentNext]_vars

BothFinished == inv # <<>> /\ \A i \in 1..2 : inv[i].at \in {"returned", "raised"}

\* C14: two invocations that interleave inside _update_config_file end with the store
\* of the last writer: when both have finished, the store holds exactly the map one of
\* them dumped (or mixed bytes), so a key the other one wrote can be missing.
C14_LastWriterWins ==
    BothFinished =>
        \/ config.paths = CorruptJson
        \/ \E i \in 1..2 : inv[i].at = "returned" /\ config.paths = inv[i].file_paths

\* both invocations returned and the key written by the first is not in the store
C14_Witness ==
    /\ inv # <<>>
    /\ inv[1].at = "returned" /\ inv[2].at = "returned"
    /\ inv[1].key # inv[2].key
    /\ config.paths # CorruptJson
    /\ inv[1].key \notin DOMAIN config.paths
    /\ inv[2].key \in DOMAIN config.paths

----------------------------------------------------------------------------
(* Claims about the command-line driver's stages *)

\* the path attributes a method reads its input from (concat reloads them first)
InputPaths(method) ==
    CASE method = "process_directional_rels" -> {dp.directional_ds}
      [] method = "process_bi_directional_rels" -> {dp.bi_directional_ds}
      [] method = "process_attribute_rels" -> {dp.attributes_ds}
      [] method = "process_node_file" -> {dp.nodes_ds}
      [] OTHER -> {LoadedPaths(config).procd_direct_rels,
                   LoadedPaths(config).procd_biDirect_rels,
                   LoadedPaths(config).procd_attrib_rels}

\* the next method to call needs a path the config store did not hold
MissingUpstream == pc = "loop" /\ todo # <<>> /\ None \in InputPaths(Head(todo))

\* C15: a stage whose input path is absent from the config store fails with
\* MissingUpstreamArtifactError, writes no file and leaves the config store as it was.
C15_MissingUpstreamArtifact ==
    [][MissingUpstream =>
          /\ pc' = "failed"
          /\ err' = "MissingUpstreamArtifactError"
          /\ fs' = fs
          /\ config' = config]_vars

\* the place in args.method of the method about to be called
Position == Len(args.method) - Len(todo) + 1

\* the method about to be called is the one that has just returned
Rerun ==
    /\ pc = "loop"
    /\ todo # <<>>
    /\ Position > 1
    /\ args.method[Position - 1] = Head(todo)

\* C16: a stage called a second time in succession succeeds again and leaves every file
\* and the config store as its first call left them.
C16_RerunIdempotent ==
    [][Rerun => (pc' = "loop" /\ fs' = fs /\ config' = config)]_vars

\* a stage has run twice in succession and the invocation has ended
C16_Witness ==
    /\ pc = "done"
    /\ Len(args.method) = 2
    /\ args.method[1] = args.method[2]

\* C17: a run stops at the first stage that fails, with the outputs of that stage and
\* of every later one unwritten and no further step taken; a run without a failure ends
\* after the last stage has written its files; nothing follows the end.
C17_RunOutcome ==
    [][/\ pc \notin {"failed", "end"}
       /\ err' # "none" => pc' = "failed"
       /\ pc' = "failed" =>
             \E i \in 1..5 :
                /\ pc = PipelineStages[i]
                /\ \A j \in i..5 : ~Exists(fs', StageOutputs[j])
       /\ pc' = "end" =>
             /\ err' = "none"
             /\ \A i \in 1..5 : Exists(fs', StageOutputs[i])
             /\ Exists(fs', DataPaths.concat_relationships_procd)
             /\ Exists(fs', DataPaths.nodes_procd)]_vars

\* the attribute normalizer failed after two completed stages: nothing later was written
C17_Witness ==
    /\ pc = "failed"
    /\ StageWritten(1) /\ StageWritten(2)
    /\ \A j \in 3..5 : ~StageWritten(j)

\* the composite-key field of every row of the raw bidirectional extract
RawKeys ==
    LET file == fs[DataPaths.bidirectional_rels]
    IN  [i \in 1..Len(file.rows) |-> file.rows[i][3].s]

\* C18: when any row of the bidirectional extract has a key with other than two
\* comma-separated parts, the bidirectional normalizer writes no intermediate table.
C18_DecodeAllOrNothing ==
    (\E i \in 1..Len(RawKeys) : CountChar(RawKeys[i], ",") # 1) =>
        ~Exists(fs, DataPaths.bidirectional_rels_procd)

\* the ref_count field of the raw row with msrc_id id: field 6 of a directional row,
\* field 8 of a bidirectional row; an attribute row has none
RawRefCount(id) ==
    LET d == fs[DataPaths.directional_rels].rows
        b == fs[DataPaths.bidirectional_rels].rows
    IN  IF \E i \in 1..Len(d) : d[i][1].s = id
        THEN d[CHOOSE i \in 1..Len(d) : d[i][1].s = id][6].s
        ELSE IF \E i \in 1..Len(b) : b[i][1].s = id
             THEN b[CHOOSE i \in 1..Len(b) : b[i][1].s = id][8].s
             ELSE <<"0">>

\* C19: in the written relationship table ref_count is never missing: a row that came
\* with a ref_count carries that value, an attribute row carries 0.
C19_RefCountDefault ==
    RelationsWritten =>
        \A i \in 1..Len(Relations.rows) :
            LET written == WrittenColumn(Relations, "ref_count:int")[i]
            IN  /\ written # <<>>
                /\ written # tSentinel
                /\ written = RawRefCount(WrittenColumn(Relations, "msrc_id")[i])

----------------------------------------------------------------------------
(* Claims about the type column *)

\* the type fields of the raw rows: field 3 of a directional row, field 4 of a
\* bidirectional and of an attribute row
RawTypes ==
    {fs[DataPaths.directional_rels].rows[i][3].s :
        i \in 1..Len(fs[DataPaths.directional_rels].rows)}
    \cup {fs[DataPaths.bidirectional_rels].rows[i][4].s :
        i \in 1..Len(fs[DataPaths.bidirectional_rels].rows)}
    \cup {fs[DataPaths.attribute_rels].rows[i][4].s :
        i \in 1..Len(fs[DataPaths.attribute_rels].rows)}

\* C20: every type of the written relationship table equals its own upper-cased form,
\* and is the upper-cased type of a raw row, whatever case that row came in.
C20_TypeUpperCase ==
    RelationsWritten =>
        \A i \in 1..Len(Relations.rows) :
            LET type == WrittenColumn(Relations, "type:TYPE")[i]
            IN  /\ type = Upper(type)
                /\ \A k \in 1..Len(type) : type[k] \notin Range(LowerLetters)
                /\ type \in {Upper(Strip(t)) : t \in RawTypes}

\* a raw directional row came with the type in lower case and was written in upper case
C20_Witness ==
    /\ RelationsWritten
    /\ tregulation \in RawTypes
    /\ \E i \in 1..Len(Relations.rows) :
          WrittenColumn(Relations, "type:TYPE")[i] =
              <<"R", "E", "G", "U", "L", "A", "T", "I", "O", "N">>

----------------------------------------------------------------------------
(* Claims about the written schema *)

\* the msrc_id fields of a raw extract
RawIds(path) == {fs[path].rows[i][1].s : i \in 1..Len(fs[path].rows)}

\* the columns of the Directional intermediate table: the raw layout without id2
CanonicalColumns ==
    <<"msrc_id", ":START_ID", "type:TYPE", "effect", "mechanism", "ref_count:int", ":END_ID",
      "biomarkertype", "celllinename", "celltype", "changetype", "organ", "organism",
      "quantitativetype", "tissue", "nct_id", "phase">>

\* the canonical columns the Bidirectional and the Attribute intermediate tables lack
BidirectionalLacks == {"nct_id", "phase"}

AttributeLacks ==
    Range(CanonicalColumns) \ {"msrc_id", ":START_ID", "type:TYPE", ":END_ID"}

\* the written tables and header files have the canonical layout; in a row that came
\* from a variant every column the variant lacks holds the sentinel, ref_count:int of an
\* attribute row holding ref_default
SchemaHolds(ref_default) ==
    /\ RelationsWritten =>
          /\ Relations.cols = CanonicalColumns
          /\ Relations.cols = fs[DataPaths.directional_rels_procd].cols
          /\ fs[DataPaths.relationships_header] = [cols |-> Relations.cols, rows |-> <<>>]
          /\ \A i \in 1..Len(Relations.rows) :
                /\ Len(Relations.rows[i]) = Len(CanonicalColumns)
                /\ WrittenColumn(Relations, "msrc_id")[i] \in
                       RawIds(DataPaths.bidirectional_rels) =>
                      \A c \in BidirectionalLacks : WrittenColumn(Relations, c)[i] = tSentinel
                /\ WrittenColumn(Relations, "msrc_id")[i] \in
                       RawIds(DataPaths.attribute_rels) =>
                      \A c \in AttributeLacks :
                          WrittenColumn(Relations, c)[i] =
                              IF c = "ref_count:int" THEN ref_default ELSE tSentinel
    /\ NodesWritten =>
          /\ Nodes.cols = node_columns
          /\ fs[DataPaths.nodes_header] = [cols |-> Nodes.cols, rows |-> <<>>]

\* C21 as stated: every column a variant lacks, ref_count:int included, holds the
\* sentinel in that variant's rows.
C21_Original == SchemaHolds(tSentinel)

\* C21: the written relationship table has exactly the columns of the Directional
\* intermediate table, in that order; a column a variant lacks holds the sentinel in
\* that variant's rows, except ref_count:int, which holds 0; the relationship header
\* file lists the same names in the same order and the node header file lists the node
\* table's columns.
C21_CanonicalSchema == SchemaHolds(<<"0">>)

\* the run has ended and the written table holds an attribute row
C21_Witness ==
    /\ pc = "end"
    /\ RelationsWritten /\ NodesWritten
    /\ \E i \in 1..Len(Relations.rows) :
          WrittenColumn(Relations, "msrc_id")[i] \in RawIds(DataPaths.attribute_rels)
    /\ \E i \in 1..Len(Relations.rows) :
          WrittenColumn(Relations, "msrc_id")[i] \in RawIds(DataPaths.bidirectional_rels)

----------------------------------------------------------------------------
(* Claims about upper-casing *)

\* the label fields of the raw node extract
RawLabels == {fs[DataPaths.nodes_raw].rows[i][3].s : i \in 1..Len(fs[DataPaths.nodes_raw].rows)}

\* C22: upper-casing is idempotent on what the pipeline handles: a raw type or label
\* upper-cased twice is the value upper-cased once, and feeding the written relationship
\* table (type column) or the written node table (label column) back through the
\* upper-casing step leaves every cell as it was written.
C22_UpperIdempotent ==
    /\ RelationsWritten =>
          /\ \A t \in RawTypes : Upper(Upper(t)) = Upper(t)
          /\ WrittenColumn(UpperCol(Relations, "type:TYPE"), "type:TYPE") =
                 WrittenColumn(Relations, "type:TYPE")
    /\ NodesWritten =>
          /\ \A l \in RawLabels : Upper(Upper(l)) = Upper(l)
          /\ WrittenColumn(UpperCol(Nodes, ":LABEL"), ":LABEL") = WrittenColumn(Nodes, ":LABEL")

\* both tables are written, from a raw type and a raw label that held lower-case letters
C22_Witness ==
    /\ pc = "end"
    /\ RelationsWritten
    /\ NodesWritten
    /\ tregulation \in RawTypes
    /\ tProtein \in RawLabels
    /\ \E i \in 1..Len(Relations.rows) :
          WrittenColumn(Relations, "type:TYPE")[i] =
              <<"R", "E", "G", "U", "L", "A", "T", "I", "O", "N">>
    /\ \E i \in 1..Len(Nodes.rows) :
          WrittenColumn(Nodes, ":LABEL")[i] = <<"P", "R", "O", "T", "E", "I", "N">>

----------------------------------------------------------------------------
(* The attribute normalizer alone, in both scripts *)

MaxAttrRows == 2

\* rows of attribute_sql_query (msrc_id|start|id2|type|end): complete; without a type;
\* a start that is no number; without id2 alone; without msrc_id; an end that is no
\* number; without a start; without an end
AttributeBatchRows ==
    { << <<"3">>, <<"6", "0">>, <<"9", "9">>, tExpression, <<"7", "0">> >>,
      << <<"5">>, <<"6", "1">>, <<"9", "8">>, <<>>, <<"7", "1">> >>,
      << <<"6">>, <<"6", "x">>, <<"9", "7">>, tExpression, <<"7", "2">> >>,
      << <<"7">>, <<"6", "2">>, <<>>, tExpression, <<"7", "3">> >>,
      << <<>>, <<"6", "3">>, <<"9", "6">>, tExpression, <<"7", "4">> >>,
      << <<"8">>, <<"6", "4">>, <<"9", "5">>, tExpression, <<"7", "y">> >>,
      << <<"9">>, <<>>, <<"9", "4">>, tExpression, <<"7", "5">> >>,
      << <<"4">>, <<"6", "5">>, <<"9", "3">>, tExpression, <<>> >> }

\* the attribute extract is on disk; the pipeline's DataProcessor is at its attribute
\* stage, or the command-line script is started with --method process_attribute_rels
AttrInit ==
    /\ inOutkey = <<>>
    /\ decoded = NotCalled
    /\ inv = NoInvocations
    /\ \E a \in SeqsUpTo(AttributeBatchRows, MaxAttrRows) :
          fs = WriteFile(NoFiles, DataPaths.attribute_rels, RawFile(a))
    /\ err = "none"
    /\ dp = NewDataProcessor
    /\ ExtractIdle
    /\ \/ /\ pc = "process_attribute_rels"
          /\ config = NoConfig
          /\ args = NoArgs
          /\ todo = <<>>
       \/ /\ pc = "main"
          /\ config = UpdateConfig(NoConfig, "attributes_ds", DataPaths.attribute_rels)
          /\ args = [method |-> <<"process_attribute_rels">>, file_name |-> <<"out">>]
          /\ todo = <<"process_attribute_rels">>

AttrNext ==
    \/ process_attribute_rels
    \/ cli_load
    \/ cli_process_attribute_rels
    \/ cli_end

SpecAttr == AttrInit /\ [][AttrNext]_vars

\* the rows of the raw attribute extract
RawAttributes == fs[DataPaths.attribute_rels].rows

\* a field pandas reads as missing among msrc_id, start, type, end of a raw row
AttrMissing(row) == \E j \in {1, 2, 4, 5} : row[j].s \in NaTexts

\* a start or end that is present and is no number
AttrNonNumeric(row) ==
    \E j \in {2, 5} : row[j].s \notin NaTexts /\ ~NumberOfText(row[j].s).ok

\* the step taken is the attribute normalizer of either script
AttrStep ==
    \/ pc = "process_attribute_rels"
    \/ pc = "loop" /\ todo # <<>> /\ Head(todo) = "process_attribute_rels"

\* where that normalizer pickles its table
AttrOutput ==
    IF pc = "loop" THEN ensure_extension(args.file_name, ".pkl")
    ELSE DataPaths.attribute_rels_procd

\* (start, type, end) of the rows of a raw extract that satisfy keep, in input order
RawTriples(rows, keep(_)) ==
    LET kept == SelectSeq(rows, keep)
    IN  [i \in 1..Len(kept) |->
            <<NumberOfText(kept[i][2].s).n, Strip(kept[i][4].s), NumberOfText(kept[i][5].s).n>>]

\* (start, type, end) of the rows of a normalized table
TableTriples(df) ==
    [i \in 1..Len(df.rows) |->
        <<Cell(df, df.rows[i], ":START_ID").n, Cell(df, df.rows[i], "type:TYPE").s,
          Cell(df, df.rows[i], ":END_ID").n>>]

\* C23: when a raw attribute row has a start or end that is no number, the attribute
\* normalizer does not fail: it writes the intermediate table, which holds every row
\* that is complete and numeric and not the offending row.
C23_TolerantCoercion ==
    [][AttrStep /\ Exists(fs, DataPaths.attribute_rels)
             /\ (\E i \in 1..Len(RawAttributes) : AttrNonNumeric(RawAttributes[i]))
        => /\ pc' # "failed"
           /\ Exists(fs', AttrOutput)
           /\ TableTriples(fs'[AttrOutput]) =
                  RawTriples(RawAttributes,
                             LAMBDA row : ~AttrMissing(row) /\ ~AttrNonNumeric(row))]_vars

----------------------------------------------------------------------------
(* Claims about the bidirectional normalizer *)

BidirectionalWritten == Exists(fs, DataPaths.bidirectional_rels_procd)

Bidirectional == fs[DataPaths.bidirectional_rels_procd]

\* C25: the Bidirectional intermediate table has one row per raw row, in input order
\* (same msrc_id at the same position); its start and end are the first and the second
\* part of that row's own composite key, as integers, whatever the raw start and end
\* fields held; and it has no inOutkey, relationship or id2 column.
C25_BidirectionalReshaping ==
    BidirectionalWritten =>
        /\ Len(Bidirectional.rows) = Len(RawKeys)
        /\ Range(Bidirectional.cols) \cap {"inOutkey", "relationship", "id2"} = {}
        /\ \A i \in 1..Len(RawKeys) :
              LET row == Bidirectional.rows[i]
                  parts == KeyParts(CleanKey(RawKeys[i]))
              IN  /\ Cell(Bidirectional, row, "msrc_id") =
                         IntCell(ParseNat(fs[DataPaths.bidirectional_rels].rows[i][1].s))
                  /\ Cell(Bidirectional, row, ":START_ID") = IntCell(ParseNat(parts.first))
                  /\ Cell(Bidirectional, row, ":END_ID") = IntCell(ParseNat(parts.second))

\* two rows were reshaped; the first came with end 50 and key [30,40] and has end 40
C25_Witness ==
    /\ BidirectionalWritten
    /\ Len(Bidirectional.rows) = 2
    /\ fs[DataPaths.bidirectional_rels].rows[1][9].s = <<"5", "0">>
    /\ Cell(Bidirectional, Bidirectional.rows[1], ":START_ID") = IntCell(30)
    /\ Cell(Bidirectional, Bidirectional.rows[1], ":END_ID") = IntCell(40)
    /\ Cell(Bidirectional, Bidirectional.rows[2], ":START_ID") = IntCell(31)
    /\ Cell(Bidirectional, Bidirectional.rows[2], ":END_ID") = IntCell(41)

----------------------------------------------------------------------------
(* Claims about the node normalizer *)

\* C26: in the written node table every id, name and label has no surrounding
\* whitespace, every label has no lower-case letter and every id is a decimal integer;
\* when no raw name embeds sub-records the table has one row per raw row, in input
\* order (the same id at the same position).
C26_NodeCleaning ==
    NodesWritten =>
        /\ \A i \in 1..Len(Nodes.rows) :
              LET id == WrittenColumn(Nodes, ":ID")[i]
                  name == WrittenColumn(Nodes, "name")[i]
                  label == WrittenColumn(Nodes, ":LABEL")[i]
              IN  /\ NoOuterSpace(id) /\ NoOuterSpace(name) /\ NoOuterSpace(label)
                  /\ \A k \in 1..Len(label) : label[k] \notin Range(LowerLetters)
                  /\ id # <<>> /\ IsDigits(id)
        /\ (\A p \in 1..Len(RawNodes.rows) : EmbeddedCount(RawNodes.rows[p][2].s) = 0) =>
              /\ Len(Nodes.rows) = Len(RawNodes.rows)
              /\ \A i \in 1..Len(Nodes.rows) :
                    ParseNat(WrittenColumn(Nodes, ":ID")[i]) = ParseNat(RawNodes.rows[i][1].s)

\* two plain raw rows were written, the second with the label 'cell ' trimmed and
\* upper-cased
C26_Witness ==
    /\ NodesWritten
    /\ Len(Nodes.rows) = 2
    /\ \A p \in 1..Len(RawNodes.rows) : EmbeddedCount(RawNodes.rows[p][2].s) = 0
    /\ RawNodes.rows[2][3].s = tcell
    /\ WrittenColumn(Nodes, ":LABEL")[2] = <<"C", "E", "L", "L">>
    /\ WrittenColumn(Nodes, ":ID") = << <<"1">>, <<"2">> >>

----------------------------------------------------------------------------
(* Claims about the config store *)

\* the methods of the invocation that have returned once the current one has
Completed(left) == [i \in 1..(Len(args.method) - Len(left)) |-> args.method[i]]

\* C27: a step that changes the config store sets the stage's key to the stage's output
\* path and leaves every other key with the value it had (a store that did not exist
\* becomes exactly that one entry); and when a stage returns, the key of every stage
\* completed so far is in the store and holds the path that stage wrote.
C27_ConfigUpdateFrame ==
    [][/\ config' # config =>
             /\ config'.exists
             /\ DOMAIN config'.paths = (DOMAIN config.paths) \cup {DatasetKey(pc)}
             /\ config'.paths[DatasetKey(pc)] = OutputPath
             /\ \A k \in (DOMAIN config.paths) \ {DatasetKey(pc)} :
                    config'.paths[k] = config.paths[k]
             /\ ~config.exists => DOMAIN config'.paths = {DatasetKey(pc)}
       /\ (pc' = "done" /\ pc # "done") =>
             \A i \in 1..Len(Completed(todo)) :
                /\ DatasetKey(Completed(todo)[i]) \in DOMAIN config'.paths
                /\ config'.paths[DatasetKey(Completed(todo)[i])] = OutputPath]_vars

\* three different extraction stages have returned and the store holds their three keys
C27_Witness ==
    /\ pc = "done"
    /\ todo = <<>>
    /\ Len(args.method) = 3
    /\ Cardinality(DOMAIN config.paths) = 3
    /\ \A k \in DOMAIN config.paths : config.paths[k] = OutputPath

----------------------------------------------------------------------------
(* Claims about the sentinel passes *)

\* sub occurs inside s
Contains(s, sub) == \E i \in 1..(Len(s) - Len(sub) + 1) : SubSeq(s, i, i + Len(sub) - 1) = sub

\* the text columns of a directional raw row that the Unifier leaves in their case:
\* column name and field position
DirectionalTextFields == {<<"effect", 4>>, <<"mechanism", 5>>, <<"phase", 18>>}

\* C29: for every written row that came from a directional raw row and every text field
\* of it: a field that is a missing value, or is exactly "nan" or "None" once stripped,
\* is written as "_"; a longer field that contains "nan" or "None" is written as it
\* came (stripped).
C29_WholeCellSentinel ==
    RelationsWritten =>
        \A i \in 1..Len(Relations.rows) :
        \A r \in 1..Len(fs[DataPaths.directional_rels].rows) :
            LET raw == fs[DataPaths.directional_rels].rows[r]
            IN  WrittenColumn(Relations, "msrc_id")[i] = raw[1].s =>
                    \A f \in DirectionalTextFields :
                        LET v == raw[f[2]].s
                            written == WrittenColumn(Relations, f[1])[i]
                        IN  /\ (v \in NaTexts \/ Strip(v) \in {tnan, tNone}) =>
                                  written = tSentinel
                            /\ (Strip(v) \notin {tnan, tNone}
                                /\ (Contains(v, tnan) \/ Contains(v, tNone))) =>
                                  written = Strip(v)

\* the row with effect 'nano', mechanism ' None' and phase 'Nonex' was written with
\* 'nano', '_' and 'Nonex'
C29_Witness ==
    /\ RelationsWritten
    /\ \E i \in 1..Len(Relations.rows) :
          /\ WrittenColumn(Relations, "msrc_id")[i] = <<"8">>
          /\ WrittenColumn(Relations, "effect")[i] = <<"n", "a", "n", "o">>
          /\ WrittenColumn(Relations, "mechanism")[i] = tSentinel
          /\ WrittenColumn(Relations, "phase")[i] = <<"N", "o", "n", "e", "x">>

----------------------------------------------------------------------------
(* Claims about the database connection *)

\* C30: a stage that returns has closed its connection and a stage that raises leaves
\* no connection open; the steps inside the try block run on an open connection; and
\* the connection is closed by one step only, taken while it is open.
C30_ConnectionReleased ==
    [][/\ at' = "returned" => conn' = "closed"
       /\ at' = "raised" => conn' # "open"
       /\ (at' = "raised" /\ conn # "none") => conn' = "closed"
       /\ at \in {"open", "execute", "write", "finally"} => conn = "open"
       /\ (conn' = "closed" /\ at' # at) => (conn = "open" /\ at = "finally")
       /\ conn = "closed" => conn' # "open"]_vars

\* the query raised after the output file was opened: the stage raised and the
\* connection is closed
C30_Witness ==
    /\ at = "raised"
    /\ err = "DatabaseError"
    /\ conn = "closed"
    /\ Exists(fs, OutputPath)

====
